---- MODULE Spec2Model ----
(***************************************************************************)
(* A model of the astra interpreter (src/src/main.rs): the lexer, the      *)
(* Pratt parser, the tree-walking evaluator, the two statement runners and *)
(* the driver loop of main.                                                *)
(*                                                                         *)
(* Source text, lexemes, names and String values are TLA+ strings; a       *)
(* character is a string of length one.  Lexer positions are 0-based as    *)
(* in the code: the character at position pos is SubSeq(input,pos+1,pos+1).*)
(***************************************************************************)
EXTENDS Integers, Sequences, FiniteSets, TLC

VARIABLES
    input,       \* main: file_content, the source text
    phase,       \* main: "start" | "run" | "done" | "parse_error" | "runtime_error"
    statements,  \* main: the Vec<Statement> returned by parser.parse()
    idx,         \* main: number of top-level statements executed, a failed one included
    env,         \* main: env, the top-level Environment
    func_defs,   \* main: func_defs, the Function table
    out,         \* stdout: the lines written so far
    err,         \* stderr: the diagnostic written by main ("" when none)
    hist,        \* history: the state before each executed top-level statement
    lexer        \* a Lexer over input on its own: pos, the token of the last
                 \* next_token call, and the number of calls that returned Eof

vars == <<input, phase, statements, idx, env, func_defs, out, err, hist, lexer>>

\* let v = value; body(v): the value is computed once and named by the parameter
Bind(value, body(_)) == body(value)

(***************************************************************************)
(* Characters                                                              *)
(***************************************************************************)
None == ""

Digits == {"0", "1", "2", "3", "4", "5", "6", "7", "8", "9"}

Letters ==
    {"a", "b", "c", "d", "e", "f", "g", "h", "i", "j", "k", "l", "m",
     "n", "o", "p", "q", "r", "s", "t", "u", "v", "w", "x", "y", "z",
     "A", "B", "C", "D", "E", "F", "G", "H", "I", "J", "K", "L", "M",
     "N", "O", "P", "Q", "R", "S", "T", "U", "V", "W", "X", "Y", "Z"}

Whitespace == {" ", "\n", "\t", "\r"}

is_ascii_digit(c) == c \in Digits
is_whitespace(c) == c \in Whitespace
is_alphabetic(c) == c \in Letters
is_alphanumeric(c) == c \in Letters \cup Digits

ArithChars == {"+", "-", "*", "/", "%", "^"}

KeywordNames == {"print", "def", "fn", "return", "if", "else", "and", "or"}

(***************************************************************************)
(* Tokens                                                                  *)
(***************************************************************************)
Tok(k, s) == [k |-> k, s |-> s]
Eof == Tok("Eof", "")

(***************************************************************************)
(* Lexer                                                                   *)
(***************************************************************************)
peek_char(inp, pos) == IF pos < Len(inp) THEN SubSeq(inp, pos + 1, pos + 1) ELSE None

RECURSIVE skip_comment(_, _)

\* skip_comment stepping over the character that ends the comment, whether
\* there is one or not
skip_comment_past_newline(inp, pos) ==
    IF peek_char(inp, pos) # None /\ peek_char(inp, pos) # "\n"
    THEN skip_comment(inp, pos + 1)
    ELSE pos + 1

\* the inner loop of skip_whitespace: the position of the next newline or the end
skip_comment(inp, pos) ==
    IF peek_char(inp, pos) # None /\ peek_char(inp, pos) # "\n"
    THEN skip_comment(inp, pos + 1)
    ELSE pos

RECURSIVE skip_whitespace(_, _)
skip_whitespace(inp, pos) ==
    IF peek_char(inp, pos) # None /\ is_whitespace(peek_char(inp, pos))
    THEN skip_whitespace(inp, pos + 1)
    ELSE IF peek_char(inp, pos) = ";"
    THEN skip_whitespace(inp, skip_comment(inp, pos + 1))
    ELSE pos

\* while peek_char is an ASCII digit: push it
RECURSIVE lex_digits(_, _, _)
lex_digits(inp, pos, acc) ==
    IF peek_char(inp, pos) # None /\ is_ascii_digit(peek_char(inp, pos))
    THEN lex_digits(inp, pos + 1, acc \o peek_char(inp, pos))
    ELSE [s |-> acc, pos |-> pos]

\* lex_number taking the dot only when a digit follows it
lex_number_dot_before_digit(inp, pos, ch) ==
    Bind(lex_digits(inp, pos, ch), LAMBDA int :
        IF peek_char(inp, int.pos) = "." /\ peek_char(inp, int.pos + 1) # None
           /\ is_ascii_digit(peek_char(inp, int.pos + 1))
        THEN Bind(lex_digits(inp, int.pos + 1, int.s \o "."), LAMBDA frac :
                  [tok |-> Tok("Number", frac.s), pos |-> frac.pos])
        ELSE [tok |-> Tok("Number", int.s), pos |-> int.pos])

\* the number branch of next_token; pos is the position after the first digit ch
lex_number(inp, pos, ch) ==
    Bind(lex_digits(inp, pos, ch), LAMBDA int :
        IF peek_char(inp, int.pos) = "."
        THEN Bind(lex_digits(inp, int.pos + 1, int.s \o "."), LAMBDA frac :
                  [tok |-> Tok("Number", frac.s), pos |-> frac.pos])
        ELSE [tok |-> Tok("Number", int.s), pos |-> int.pos])

\* the escape table of the string branch
unescape(c) ==
    CASE c = "n" -> "\n"
      [] c = "t" -> "\t"
      [] OTHER -> c

\* the string branch of next_token; pos is the position after the delimiter
RECURSIVE lex_string(_, _, _, _)
lex_string(inp, pos, delimiter, acc) ==
    LET next_ch == peek_char(inp, pos)
    IN  IF next_ch = None THEN [tok |-> Tok("StringLiteral", acc), pos |-> pos]
        ELSE IF next_ch = delimiter
        THEN [tok |-> Tok("StringLiteral", acc), pos |-> pos + 1]
        ELSE IF next_ch = "\\"
        THEN LET escaped_ch == peek_char(inp, pos + 1)
             IN  IF escaped_ch = None
                 THEN [tok |-> Tok("StringLiteral", acc), pos |-> pos + 1]
                 ELSE lex_string(inp, pos + 2, delimiter, acc \o unescape(escaped_ch))
        ELSE lex_string(inp, pos + 1, delimiter, acc \o next_ch)

\* while peek_char is alphanumeric or '_': push it
RECURSIVE lex_ident(_, _, _)
lex_ident(inp, pos, acc) ==
    IF peek_char(inp, pos) # None
       /\ (is_alphanumeric(peek_char(inp, pos)) \/ peek_char(inp, pos) = "_")
    THEN lex_ident(inp, pos + 1, acc \o peek_char(inp, pos))
    ELSE [s |-> acc, pos |-> pos]

\* the operator branches of next_token; pos is the position after ch
lex_operator(inp, pos, ch) ==
    LET p1 == peek_char(inp, pos)
        p2 == peek_char(inp, pos + 1)
    IN  IF ch \in ArithChars
        THEN IF p1 = "=" THEN [tok |-> Tok("Cmp", ch \o "="), pos |-> pos + 1]
             ELSE [tok |-> Tok("Op", ch), pos |-> pos]
        ELSE IF ch = "=" \/ ch = "!"
        THEN IF p1 = "="
             THEN IF p2 = "=" THEN [tok |-> Tok("Cmp", ch \o "=="), pos |-> pos + 2]
                  ELSE [tok |-> Tok("Cmp", ch \o "="), pos |-> pos + 1]
             ELSE [tok |-> Tok("Op", ch), pos |-> pos]
        ELSE IF ch = "<" \/ ch = ">"
        THEN IF p1 = "=" THEN [tok |-> Tok("Cmp", ch \o "="), pos |-> pos + 1]
             ELSE [tok |-> Tok("Cmp", ch), pos |-> pos]
        ELSE [tok |-> Tok("Op", ch), pos |-> pos]

\* Lexer::new: the position; current and eofs record the calls made since
Lexer_new == [pos |-> 0, current |-> Eof, eofs |-> 0]

\* Lexer::next_token from position pos: the token and the position after it
next_token(inp, pos) ==
    Bind(skip_whitespace(inp, pos), LAMBDA start :
    Bind(peek_char(inp, start), LAMBDA ch :
        IF ch = None THEN [tok |-> Eof, pos |-> start]
        ELSE IF is_ascii_digit(ch) THEN lex_number(inp, start + 1, ch)
        ELSE IF ch = "\"" \/ ch = "'" THEN lex_string(inp, start + 1, ch, "")
        ELSE IF is_alphabetic(ch) \/ ch = "_"
        THEN Bind(lex_ident(inp, start + 1, ch), LAMBDA id :
                  [tok |-> Tok(IF id.s \in KeywordNames THEN "Keyword" ELSE "Ident", id.s),
                   pos |-> id.pos])
        ELSE lex_operator(inp, start + 1, ch)))

(***************************************************************************)
(* AST (enum Expr, enum Statement).  Option<T> is a sequence of length 0   *)
(* (None) or 1 (Some).                                                     *)
(***************************************************************************)
NoneOpt == <<>>
Some(x) == <<x>>

Var(id) == [e |-> "Var", id |-> id]
Num(s) == [e |-> "Num", s |-> s]
Str(s) == [e |-> "Str", s |-> s]
Prefix(op, rhs) == [e |-> "Prefix", op |-> op, rhs |-> rhs]
Infix(lhs, op, rhs) == [e |-> "Infix", lhs |-> lhs, op |-> op, rhs |-> rhs]
Cmp(lhs, op, rhs) == [e |-> "Cmp", lhs |-> lhs, op |-> op, rhs |-> rhs]
Logic(lhs, op, rhs) == [e |-> "Logic", lhs |-> lhs, op |-> op, rhs |-> rhs]
Call(name, args) == [e |-> "Call", name |-> name, args |-> args]

StExpr(expr) == [s |-> "Expr", expr |-> expr]
StPrint(fmt, args) == [s |-> "Print", fmt |-> fmt, args |-> args]
StDef(name, params, body) == [s |-> "Def", name |-> name, params |-> params, body |-> body]
StReturn(opt_expr) == [s |-> "Return", expr |-> opt_expr]
StIf(cond, then_body, else_body) ==
    [s |-> "If", cond |-> cond, then |-> then_body, else |-> else_body]

(***************************************************************************)
(* Parser.  The parser state p is [pos, cur]: the lexer position and the   *)
(* current token.  A parse function yields [ok |-> TRUE, p, v] or          *)
(* [ok |-> FALSE, err].                                                    *)
(***************************************************************************)
POk(p, v) == [ok |-> TRUE, p |-> p, v |-> v]
PErr(msg) == [ok |-> FALSE, err |-> msg]

\* {:?} of a Token (without the escaping of its text)
DebugTok(t) ==
    CASE t.k = "Eof" -> "Eof"
      [] t.k = "Op" -> "Op('" \o t.s \o "')"
      [] OTHER -> t.k \o "(\"" \o t.s \o "\")"

advance(inp, p) ==
    Bind(next_token(inp, p.pos), LAMBDA r : [pos |-> r.pos, cur |-> r.tok])

Parser_new(inp) == advance(inp, [pos |-> 0, cur |-> Eof])

prefix_binding_power(op) == IF op \in {"+", "-"} THEN 10 ELSE 0

\* binding_power with the two binding powers of ^ exchanged: ^ groups right
\* to left
binding_power_pow_right(op) ==
    CASE op = "=" -> Some([l_bp |-> 2, r_bp |-> 1, is_cmp |-> FALSE])
      [] op = "or" -> Some([l_bp |-> 3, r_bp |-> 4, is_cmp |-> FALSE])
      [] op = "and" -> Some([l_bp |-> 5, r_bp |-> 6, is_cmp |-> FALSE])
      [] op \in {"==", "!=", "<", ">", "<=", ">=", "===", "!=="} ->
            Some([l_bp |-> 7, r_bp |-> 8, is_cmp |-> TRUE])
      [] op \in {"+", "-"} -> Some([l_bp |-> 9, r_bp |-> 10, is_cmp |-> FALSE])
      [] op \in {"*", "/", "%"} -> Some([l_bp |-> 11, r_bp |-> 12, is_cmp |-> FALSE])
      [] op = "^" -> Some([l_bp |-> 14, r_bp |-> 13, is_cmp |-> FALSE])
      [] OTHER -> NoneOpt

\* Option<(l_bp, r_bp, is_comparison)>
binding_power(op) ==
    CASE op = "=" -> Some([l_bp |-> 2, r_bp |-> 1, is_cmp |-> FALSE])
      [] op = "or" -> Some([l_bp |-> 3, r_bp |-> 4, is_cmp |-> FALSE])
      [] op = "and" -> Some([l_bp |-> 5, r_bp |-> 6, is_cmp |-> FALSE])
      [] op \in {"==", "!=", "<", ">", "<=", ">=", "===", "!=="} ->
            Some([l_bp |-> 7, r_bp |-> 8, is_cmp |-> TRUE])
      [] op \in {"+", "-"} -> Some([l_bp |-> 9, r_bp |-> 10, is_cmp |-> FALSE])
      [] op \in {"*", "/", "%"} -> Some([l_bp |-> 11, r_bp |-> 12, is_cmp |-> FALSE])
      [] op = "^" -> Some([l_bp |-> 13, r_bp |-> 14, is_cmp |-> FALSE])
      [] OTHER -> NoneOpt

\* the test of expr_bp for a compound-assignment token
is_compound_op(op_str) ==
    /\ Len(op_str) = 2
    /\ SubSeq(op_str, 2, 2) = "="
    /\ SubSeq(op_str, 1, 1) \in ArithChars

\* the binding power a compound assignment is compared with, and that of its rhs
CompoundLbp == 2
CompoundRbp == 1

\* desugar_compound with the operands of the operation exchanged
desugar_compound_swapped(var_id, actual_op, rhs) ==
    Infix(var_id, "=", Infix(rhs, actual_op, var_id))

\* the desugaring of  var_id op= rhs
desugar_compound(var_id, actual_op, rhs) ==
    Infix(var_id, "=", Infix(var_id, actual_op, rhs))

RECURSIVE expr_bp(_, _, _)
RECURSIVE expr_loop(_, _, _, _)
RECURSIVE parse_arguments_loop(_, _, _)

parse_arguments(inp, p) ==
    IF p.cur = Tok("Op", ")") THEN POk(advance(inp, p), <<>>)
    ELSE parse_arguments_loop(inp, p, <<>>)

parse_arguments_loop(inp, p, args) ==
    Bind(expr_bp(inp, p, 0), LAMBDA a :
        IF ~a.ok THEN a
        ELSE IF a.p.cur = Tok("Op", ")")
        THEN POk(advance(inp, a.p), Append(args, a.v))
        ELSE IF a.p.cur = Tok("Op", ",")
        THEN parse_arguments_loop(inp, advance(inp, a.p), Append(args, a.v))
        ELSE PErr("Expected ',' or ')' in function call arguments, found "
                  \o DebugTok(a.p.cur)))

\* the prefix production of expr_bp
expr_prefix(inp, p) ==
    Bind(p.cur, LAMBDA t :
    Bind(advance(inp, p), LAMBDA p1 :
        CASE t.k = "Number" -> POk(p1, Num(t.s))
          [] t.k = "Ident" ->
                IF p1.cur = Tok("Op", "(")
                THEN Bind(parse_arguments(inp, advance(inp, p1)), LAMBDA a :
                          IF a.ok THEN POk(a.p, Call(t.s, a.v)) ELSE a)
                ELSE POk(p1, Var(t.s))
          [] t.k = "StringLiteral" -> POk(p1, Str(t.s))
          [] t = Tok("Op", "(") ->
                Bind(expr_bp(inp, p1, 0), LAMBDA r :
                     IF ~r.ok THEN r
                     ELSE IF r.p.cur # Tok("Op", ")")
                     THEN PErr("Expected ')', found " \o DebugTok(r.p.cur))
                     ELSE POk(advance(inp, r.p), r.v))
          [] t.k = "Op" /\ t.s \in {"+", "-"} ->
                Bind(expr_bp(inp, p1, prefix_binding_power(t.s)), LAMBDA r :
                     IF r.ok THEN POk(r.p, Prefix(t.s, r.v)) ELSE r)
          [] OTHER -> PErr("Bad token in prefix: " \o DebugTok(t)
                           \o " (Expected expression start or operator)")))

expr_bp(inp, p, min_bp) ==
    Bind(expr_prefix(inp, p), LAMBDA l :
        IF l.ok THEN expr_loop(inp, l.p, l.v, min_bp) ELSE l)

\* the infix loop of expr_bp
expr_loop(inp, p, lhs, min_bp) ==
    LET op_token == p.cur
        is_logic_op == op_token.k = "Keyword" /\ op_token.s \in {"and", "or"}
        is_op == is_logic_op \/ op_token.k \in {"Op", "Cmp"}
        op_str == op_token.s
    IN  IF ~is_op THEN POk(p, lhs)
        ELSE IF is_compound_op(op_str)
        THEN IF CompoundLbp < min_bp THEN POk(p, lhs)
             ELSE Bind(expr_bp(inp, advance(inp, p), CompoundRbp), LAMBDA r :
                      IF ~r.ok THEN r
                      ELSE IF lhs.e # "Var"
                      THEN PErr("Left-hand side of compound assignment '" \o op_str
                                \o "' must be a variable")
                      ELSE expr_loop(inp, r.p,
                                     desugar_compound(Var(lhs.id), SubSeq(op_str, 1, 1), r.v),
                                     min_bp))
        ELSE Bind(binding_power(op_str), LAMBDA bp :
                 IF bp = NoneOpt THEN POk(p, lhs)
                 ELSE IF bp[1].l_bp < min_bp THEN POk(p, lhs)
                 ELSE Bind(expr_bp(inp, advance(inp, p), bp[1].r_bp), LAMBDA r :
                          IF ~r.ok THEN r
                          ELSE expr_loop(inp, r.p,
                                   IF bp[1].is_cmp THEN Cmp(lhs, op_str, r.v)
                                   ELSE IF is_logic_op THEN Logic(lhs, op_str, r.v)
                                   ELSE Infix(lhs, SubSeq(op_str, 1, 1), r.v),
                                   min_bp)))

RECURSIVE parse_block_body(_, _)
RECURSIVE parse_fn_statement(_, _)
RECURSIVE parse_block_loop(_, _, _)
RECURSIVE parse_if_statement(_, _)

\* parse_return_statement taking no expression that starts with a sign
parse_return_statement_unsigned(inp, p) ==
    Bind(advance(inp, p), LAMBDA p1 :
        IF \/ p1.cur.k \in {"Number", "StringLiteral", "Ident"}
           \/ p1.cur \in {Tok("Op", "(")}
        THEN Bind(expr_bp(inp, p1, 0), LAMBDA r :
                  IF r.ok THEN POk(r.p, StReturn(Some(r.v))) ELSE r)
        ELSE POk(p1, StReturn(NoneOpt)))

parse_return_statement(inp, p) ==
    Bind(advance(inp, p), LAMBDA p1 :
        IF \/ p1.cur.k \in {"Number", "StringLiteral", "Ident"}
           \/ p1.cur \in {Tok("Op", "("), Tok("Op", "+"), Tok("Op", "-")}
        THEN Bind(expr_bp(inp, p1, 0), LAMBDA r :
                  IF r.ok THEN POk(r.p, StReturn(Some(r.v))) ELSE r)
        ELSE POk(p1, StReturn(NoneOpt)))

\* while self.current == ',': parse one more argument
RECURSIVE parse_print_args(_, _, _)
parse_print_args(inp, p, exprs) ==
    IF p.cur = Tok("Op", ",")
    THEN Bind(expr_bp(inp, advance(inp, p), 0), LAMBDA r :
              IF r.ok THEN parse_print_args(inp, r.p, Append(exprs, r.v)) ELSE r)
    ELSE POk(p, exprs)

\* the end of parse_print_statement: the closing ')'
print_close(inp, q, fmt, exprs) ==
    IF q.cur # Tok("Op", ")")
    THEN PErr("Expected closing ')' after print arguments, found " \o DebugTok(q.cur))
    ELSE POk(advance(inp, q), StPrint(fmt, exprs))

\* parse_print_statement taking a string literal as the format string only
\* when a comma or the closing parenthesis follows it
parse_print_statement_literal_expression(inp, p) ==
    Bind(advance(inp, p), LAMBDA p1 :
        IF p1.cur # Tok("Op", "(")
        THEN PErr("Expected '(' after 'print', found " \o DebugTok(p1.cur))
        ELSE
        Bind(advance(inp, p1), LAMBDA p2 :
            IF /\ p2.cur.k = "StringLiteral"
               /\ advance(inp, p2).cur \in {Tok("Op", ","), Tok("Op", ")")}
            THEN Bind(parse_print_args(inp, advance(inp, p2), <<>>), LAMBDA a :
                      IF a.ok THEN print_close(inp, a.p, Some(p2.cur.s), a.v) ELSE a)
            ELSE IF p2.cur # Tok("Op", ")")
            THEN Bind(expr_bp(inp, p2, 0), LAMBDA r :
                      IF ~r.ok THEN r
                      ELSE IF r.p.cur = Tok("Op", ",")
                      THEN PErr("When using 'print(expr)' format (without a format string), "
                                \o "only a single expression is allowed.")
                      ELSE print_close(inp, r.p, NoneOpt, <<r.v>>))
            ELSE print_close(inp, p2, NoneOpt, <<>>)))

parse_print_statement(inp, p) ==
    Bind(advance(inp, p), LAMBDA p1 :
        IF p1.cur # Tok("Op", "(")
        THEN PErr("Expected '(' after 'print', found " \o DebugTok(p1.cur))
        ELSE
        Bind(advance(inp, p1), LAMBDA p2 :
            IF p2.cur.k = "StringLiteral"
            THEN Bind(parse_print_args(inp, advance(inp, p2), <<>>), LAMBDA a :
                      IF a.ok THEN print_close(inp, a.p, Some(p2.cur.s), a.v) ELSE a)
            ELSE IF p2.cur # Tok("Op", ")")
            THEN Bind(expr_bp(inp, p2, 0), LAMBDA r :
                      IF ~r.ok THEN r
                      ELSE IF r.p.cur = Tok("Op", ",")
                      THEN PErr("When using 'print(expr)' format (without a format string), "
                                \o "only a single expression is allowed.")
                      ELSE print_close(inp, r.p, NoneOpt, <<r.v>>))
            ELSE print_close(inp, p2, NoneOpt, <<>>)))

\* the statement dispatch shared by parse and parse_block_body; top_level
\* tells whether `fn` is a statement keyword
parse_statement(inp, p, top_level) ==
    CASE p.cur = Tok("Keyword", "print") -> parse_print_statement(inp, p)
      [] p.cur = Tok("Keyword", "return") -> parse_return_statement(inp, p)
      [] p.cur = Tok("Keyword", "if") -> parse_if_statement(inp, p)
      [] p.cur = Tok("Op", "=") ->
            PErr("The assignment operator '=' cannot start a statement."
                 \o (IF top_level
                     THEN " Assignment must follow a variable (e.g., x = 10)."
                     ELSE ""))
      [] p.cur = Tok("Keyword", "def") ->
            PErr("The 'def' keyword is deprecated."
                 \o (IF top_level
                     THEN " Please use 'fn' for function definitions (e.g., fn name(...) [...])"
                     ELSE ""))
      [] p.cur = Tok("Keyword", "else") ->
            PErr("The 'else' keyword must immediately follow a closing ']' of an 'if' block.")
      [] OTHER ->
            Bind(expr_bp(inp, p, 0), LAMBDA r :
                 IF r.ok THEN POk(r.p, StExpr(r.v)) ELSE r)

\* p.cur is the token after '['
parse_block_body(inp, p) == parse_block_loop(inp, p, <<>>)

\* parse_block_loop taking fn for a statement keyword, as Parser::parse does
parse_block_loop_with_fn(inp, p, stmts) ==
    IF p.cur # Tok("Op", "]") /\ p.cur # Eof
    THEN Bind(IF p.cur = Tok("Keyword", "fn") THEN parse_fn_statement(inp, p)
              ELSE parse_statement(inp, p, FALSE),
              LAMBDA r :
                  IF r.ok THEN parse_block_loop(inp, r.p, Append(stmts, r.v)) ELSE r)
    ELSE IF p.cur # Tok("Op", "]")
    THEN PErr("Unclosed block body. Expected matching ']', found " \o DebugTok(p.cur))
    ELSE POk(advance(inp, p), stmts)

parse_block_loop(inp, p, stmts) ==
    IF p.cur # Tok("Op", "]") /\ p.cur # Eof
    THEN Bind(parse_statement(inp, p, FALSE), LAMBDA r :
              IF r.ok THEN parse_block_loop(inp, r.p, Append(stmts, r.v)) ELSE r)
    ELSE IF p.cur # Tok("Op", "]")
    THEN PErr("Unclosed block body. Expected matching ']', found " \o DebugTok(p.cur))
    ELSE POk(advance(inp, p), stmts)

\* the optional else block of parse_if_statement; b is the parsed then block
parse_else(inp, c, b) ==
    IF b.p.cur = Tok("Keyword", "else")
    THEN Bind(advance(inp, b.p), LAMBDA p3 :
              IF p3.cur # Tok("Op", "[")
              THEN PErr("Expected '[' to start else body, found " \o DebugTok(p3.cur))
              ELSE Bind(parse_block_body(inp, advance(inp, p3)), LAMBDA e :
                        IF e.ok THEN POk(e.p, StIf(c.v, b.v, Some(e.v))) ELSE e))
    ELSE POk(b.p, StIf(c.v, b.v, NoneOpt))

parse_if_statement(inp, p) ==
    Bind(advance(inp, p), LAMBDA p1 :
        IF p1.cur # Tok("Op", "(")
        THEN PErr("Expected '(' after 'if', found " \o DebugTok(p1.cur))
        ELSE
        Bind(expr_bp(inp, advance(inp, p1), 0), LAMBDA c :
            IF ~c.ok THEN c
            ELSE IF c.p.cur # Tok("Op", ")")
            THEN PErr("Expected ')' after if condition, found " \o DebugTok(c.p.cur))
            ELSE
            Bind(advance(inp, c.p), LAMBDA p2 :
                IF p2.cur # Tok("Op", "[")
                THEN PErr("Expected '[' to start if body, found " \o DebugTok(p2.cur))
                ELSE Bind(parse_block_body(inp, advance(inp, p2)), LAMBDA b :
                          IF b.ok THEN parse_else(inp, c, b) ELSE b))))

\* the parameter loop of parse_fn_statement; p.cur is the token after '(' or ','
RECURSIVE parse_params(_, _, _)
parse_params(inp, p, params) ==
    IF p.cur = Tok("Op", ")") THEN POk(p, params)
    ELSE IF p.cur.k = "Ident"
    THEN Bind(advance(inp, p), LAMBDA p1 :
             IF p1.cur = Tok("Op", ",")
             THEN parse_params(inp, advance(inp, p1), Append(params, p.cur.s))
             ELSE IF p1.cur # Tok("Op", ")")
             THEN PErr("Expected ',' or ')' after parameter " \o p.cur.s \o ", found "
                       \o DebugTok(p1.cur))
             ELSE parse_params(inp, p1, Append(params, p.cur.s)))
    ELSE IF p.cur = Eof
    THEN PErr("Unclosed parameter list in function definition. Expected ')'")
    ELSE PErr("Expected parameter name or ')' in function definition, found "
              \o DebugTok(p.cur))

parse_fn_statement(inp, p) ==
    Bind(advance(inp, p), LAMBDA p1 :
        IF p1.cur.k # "Ident"
        THEN PErr("Expected function name (identifier) after 'fn', found "
                  \o DebugTok(p1.cur))
        ELSE
        Bind(advance(inp, p1), LAMBDA p2 :
            IF p2.cur # Tok("Op", "(")
            THEN PErr("Expected '(' to start parameter list in function definition, found "
                      \o DebugTok(p2.cur))
            ELSE
            Bind(parse_params(inp, advance(inp, p2), <<>>), LAMBDA ps :
                IF ~ps.ok THEN ps
                ELSE
                Bind(advance(inp, ps.p), LAMBDA p3 :
                    IF p3.cur # Tok("Op", "[")
                    THEN PErr("Expected '[' to start function body, found "
                              \o DebugTok(p3.cur))
                    ELSE Bind(parse_block_body(inp, advance(inp, p3)), LAMBDA b :
                              IF b.ok THEN POk(b.p, StDef(p1.cur.s, ps.v, b.v)) ELSE b)))))

\* the loop of Parser::parse
RECURSIVE parse_loop(_, _, _)
parse_loop(inp, p, stmts) ==
    IF p.cur = Eof THEN POk(p, stmts)
    ELSE Bind(IF p.cur = Tok("Keyword", "fn") THEN parse_fn_statement(inp, p)
              ELSE parse_statement(inp, p, TRUE),
              LAMBDA r :
                  IF r.ok THEN parse_loop(inp, r.p, Append(stmts, r.v)) ELSE r)

\* Parser::new(input) followed by Parser::parse
parse(inp) == parse_loop(inp, Parser_new(inp), <<>>)

(***************************************************************************)
(* Magnitudes: the natural numbers under num_bigint::BigInt and under the  *)
(* mantissa of an f64.  A magnitude is the sequence of its digits in radix *)
(* 2^15, least significant first, without a most significant zero digit;   *)
(* <<>> is 0.  Every intermediate result stays below 2^31.                 *)
(***************************************************************************)
DigitBits == 15
Radix == 32768

Abs(n) == IF n < 0 THEN -n ELSE n
Max(a, b) == IF a >= b THEN a ELSE b
Min(a, b) == IF a <= b THEN a ELSE b

\* the digits a without most significant zeros
MagNorm(a) ==
    IF a = <<>> \/ a[Len(a)] # 0 THEN a
    ELSE SubSeq(a, 1, Cardinality({i \in 1..Len(a) : \E j \in i..Len(a) : a[j] # 0}))

\* digit i of a, zero beyond its length
DigitAt(a, i) == IF i <= Len(a) THEN a[i] ELSE 0

\* the magnitude of a natural number below 2^31
RECURSIVE MagOfNat(_)
MagOfNat(n) == IF n = 0 THEN <<>> ELSE <<n % Radix>> \o MagOfNat(n \div Radix)

\* a * Radix^k
MagShiftDigits(a, k) == IF a = <<>> THEN a ELSE [i \in 1..k |-> 0] \o a

\* -1, 0 or 1 as a < b, a = b or a > b on the digits 1..i
RECURSIVE MagCmpFrom(_, _, _)
MagCmpFrom(a, b, i) ==
    IF i = 0 THEN 0
    ELSE IF a[i] < b[i] THEN -1
    ELSE IF a[i] > b[i] THEN 1
    ELSE MagCmpFrom(a, b, i - 1)

MagCmp(a, b) ==
    IF Len(a) < Len(b) THEN -1
    ELSE IF Len(a) > Len(b) THEN 1
    ELSE MagCmpFrom(a, b, Len(a))

\* the digits from i on of a + b + carry
RECURSIVE MagAddFrom(_, _, _, _)
MagAddFrom(a, b, i, carry) ==
    IF i > Len(a) /\ i > Len(b) THEN (IF carry = 0 THEN <<>> ELSE <<carry>>)
    ELSE <<(DigitAt(a, i) + DigitAt(b, i) + carry) % Radix>>
         \o MagAddFrom(a, b, i + 1, (DigitAt(a, i) + DigitAt(b, i) + carry) \div Radix)

MagAdd(a, b) ==
    IF a = <<>> THEN b
    ELSE IF b = <<>> THEN a
    ELSE IF Len(a) = 1 /\ Len(b) = 1 THEN MagOfNat(a[1] + b[1])
    ELSE MagAddFrom(a, b, 1, 0)

\* the digits from i on of a - b - borrow, for a >= b
RECURSIVE MagSubFrom(_, _, _, _)
MagSubFrom(a, b, i, borrow) ==
    IF i > Len(a) THEN <<>>
    ELSE IF a[i] - DigitAt(b, i) - borrow < 0
    THEN <<a[i] - DigitAt(b, i) - borrow + Radix>> \o MagSubFrom(a, b, i + 1, 1)
    ELSE <<a[i] - DigitAt(b, i) - borrow>> \o MagSubFrom(a, b, i + 1, 0)

\* a - b, for a >= b
MagSub(a, b) == IF b = <<>> THEN a ELSE MagNorm(MagSubFrom(a, b, 1, 0))

\* the digits from i on of a * k + carry, for 0 < k <= Radix and carry < Radix
RECURSIVE MagMulSmallFrom(_, _, _, _)
MagMulSmallFrom(a, k, i, carry) ==
    IF i > Len(a) THEN MagOfNat(carry)
    ELSE <<(a[i] * k + carry) % Radix>>
         \o MagMulSmallFrom(a, k, i + 1, (a[i] * k + carry) \div Radix)

\* a * k + c, for 0 <= k <= Radix and 0 <= c < Radix
MagMulAddSmall(a, k, c) == IF k = 0 THEN MagOfNat(c) ELSE MagMulSmallFrom(a, k, 1, c)

MagMulSmall(a, k) == MagMulAddSmall(a, k, 0)

\* a * (the digits lo..hi of b, at their places)
RECURSIVE MagMulRange(_, _, _, _)
MagMulRange(a, b, lo, hi) ==
    IF lo = hi THEN MagShiftDigits(MagMulSmall(a, b[lo]), lo - 1)
    ELSE MagAdd(MagMulRange(a, b, lo, (lo + hi) \div 2),
                MagMulRange(a, b, (lo + hi) \div 2 + 1, hi))

MagMul(a, b) ==
    IF a = <<>> \/ b = <<>> THEN <<>>
    ELSE IF b = <<1>> THEN a
    ELSE IF Len(a) = 1 /\ Len(b) = 1 THEN MagOfNat(a[1] * b[1])
    ELSE MagMulRange(a, b, 1, Len(b))

\* the digits 1..i of the quotient of (rem * Radix^i + the digits 1..i of a)
\* by k, for 0 < k <= Radix and rem < k
RECURSIVE MagQuotSmallFrom(_, _, _, _)
MagQuotSmallFrom(a, k, i, rem) ==
    IF i = 0 THEN <<>>
    ELSE Append(MagQuotSmallFrom(a, k, i - 1, (rem * Radix + a[i]) % k),
                (rem * Radix + a[i]) \div k)

\* the remainder of (rem * Radix^i + the digits 1..i of a) by k
RECURSIVE MagRemSmallFrom(_, _, _, _)
MagRemSmallFrom(a, k, i, rem) ==
    IF i = 0 THEN rem ELSE MagRemSmallFrom(a, k, i - 1, (rem * Radix + a[i]) % k)

\* a \div k and a % k, for 0 < k <= Radix; the remainder is a number
MagDivSmall(a, k) == MagNorm(MagQuotSmallFrom(a, k, Len(a), 0))
MagRemSmall(a, k) == MagRemSmallFrom(a, k, Len(a), 0)

\* the number of binary digits of n < Radix
BitsOfDigit(n) ==
    IF n < 128
    THEN IF n < 8 THEN (IF n < 2 THEN n ELSE IF n < 4 THEN 2 ELSE 3)
         ELSE IF n < 32 THEN (IF n < 16 THEN 4 ELSE 5)
         ELSE (IF n < 64 THEN 6 ELSE 7)
    ELSE IF n < 2048
    THEN IF n < 512 THEN (IF n < 256 THEN 8 ELSE 9)
         ELSE (IF n < 1024 THEN 10 ELSE 11)
    ELSE IF n < 8192 THEN (IF n < 4096 THEN 12 ELSE 13)
    ELSE (IF n < 16384 THEN 14 ELSE 15)

\* a * 2^k
MagShlBits(a, s) ==
    MagNorm([i \in 1..(Len(a) + 1) |->
                (DigitAt(a, i) % 2^(DigitBits - s)) * 2^s
                + (IF i = 1 THEN 0 ELSE a[i - 1] \div 2^(DigitBits - s))])

MagShl(a, k) ==
    IF k = 0 \/ a = <<>> THEN a ELSE MagShiftDigits(MagShlBits(a, k % DigitBits), k \div DigitBits)

\* a \div 2^k
MagShrBits(a, d, s) ==
    MagNorm([i \in 1..(Len(a) - d) |->
                a[i + d] \div 2^s + (DigitAt(a, i + d + 1) % 2^s) * 2^(DigitBits - s)])

MagShr(a, k) ==
    IF k \div DigitBits >= Len(a) THEN <<>>
    ELSE MagShrBits(a, k \div DigitBits, k % DigitBits)

\* the quotient digit d of long division: b * d <= cur < b * (d + 1), for a
\* divisor b of two digits or more whose leading digit has its high bit set
\* and cur < b * Radix.  The quotient of the two leading digits of cur by the
\* leading digit of b is d, d + 1 or d + 2.
QuotPick(cur, b, qhat) ==
    IF MagCmp(MagMulSmall(b, qhat), cur) <= 0 THEN qhat
    ELSE IF MagCmp(MagMulSmall(b, qhat - 1), cur) <= 0 THEN qhat - 1
    ELSE qhat - 2

QuotDigit(cur, b) ==
    IF MagCmp(cur, b) < 0 THEN 0
    ELSE QuotPick(cur, b,
                  Min(Radix - 1,
                      (DigitAt(cur, Len(b) + 1) * Radix + cur[Len(b)]) \div b[Len(b)]))

\* long division: [q, r] of (rem * Radix^i + the digits 1..i of a) by b
RECURSIVE MagDivModFrom(_, _, _, _)
MagDivModPut(rest, d) == [q |-> Append(rest.q, d), r |-> rest.r]
MagDivModDigit(a, b, i, cur, d) ==
    MagDivModPut(MagDivModFrom(a, b, i - 1,
                               IF d = 0 THEN cur ELSE MagSub(cur, MagMulSmall(b, d))),
                 d)
MagDivModStep(a, b, i, cur) == MagDivModDigit(a, b, i, cur, QuotDigit(cur, b))
MagDivModFrom(a, b, i, rem) ==
    IF i = 0 THEN [q |-> <<>>, r |-> rem]
    ELSE MagDivModStep(a, b, i, MagNorm(<<a[i]>> \o rem))

\* the leading digits of a, one fewer than b has, are below b
MagDivModTop(a, b) ==
    MagDivModFrom(a, b, Len(a) - Len(b) + 1, SubSeq(a, Len(a) - Len(b) + 2, Len(a)))

MagDivModUnshift(d, sh) == [q |-> MagNorm(d.q), r |-> MagShr(d.r, sh)]

\* [q, r]: a = q * b + r and r < b, for b > 0: both are shifted so that the
\* leading digit of the divisor has its high bit set
MagDivModShifted(a, b, sh) ==
    MagDivModUnshift(MagDivModTop(MagShl(a, sh), MagShl(b, sh)), sh)

MagDivMod(a, b) ==
    IF MagCmp(a, b) < 0 THEN [q |-> <<>>, r |-> a]
    ELSE IF Len(b) = 1 THEN [q |-> MagDivSmall(a, b[1]), r |-> MagOfNat(MagRemSmall(a, b[1]))]
    ELSE MagDivModShifted(a, b, DigitBits - BitsOfDigit(b[Len(b)]))

MagSquare(a) == MagMul(a, a)

\* a to the power k, k a natural number
RECURSIVE MagPow(_, _)
MagPow(a, k) ==
    IF k = 0 THEN <<1>>
    ELSE IF k % 2 = 1 THEN MagMul(MagSquare(MagPow(a, k \div 2)), a)
    ELSE MagSquare(MagPow(a, k \div 2))

\* the number of binary digits of a (BigUint::bits)
MagBits(a) ==
    IF a = <<>> THEN 0 ELSE DigitBits * (Len(a) - 1) + BitsOfDigit(a[Len(a)])

\* the number of low zero bits of n, 0 < n < Radix
TrailingZerosOfDigit(n) == Cardinality({k \in 1..(DigitBits - 1) : n % 2^k = 0})

\* the number of low zero digits of a > 0
MagTrailingDigits(a) == Cardinality({i \in 1..Len(a) : \A j \in 1..i : a[j] = 0})

\* the number of low zero bits of a > 0
MagTrailingZeros(a) ==
    DigitBits * MagTrailingDigits(a) + TrailingZerosOfDigit(a[MagTrailingDigits(a) + 1])

\* bit i of a (bit 0 is the least significant)
MagBit(a, i) ==
    IF i \div DigitBits + 1 > Len(a) THEN 0
    ELSE (a[i \div DigitBits + 1] \div 2^(i % DigitBits)) % 2

(***************************************************************************)
(* Text of magnitudes                                                      *)
(***************************************************************************)
DigitVal(c) ==
    CASE c = "0" -> 0 [] c = "1" -> 1 [] c = "2" -> 2 [] c = "3" -> 3 [] c = "4" -> 4
      [] c = "5" -> 5 [] c = "6" -> 6 [] c = "7" -> 7 [] c = "8" -> 8 [] c = "9" -> 9

DigitChar(d) == SubSeq("0123456789", d + 1, d + 1)

\* the number written by the decimal digits i..j of str, at most four
NatOfDigits(str, i, j) ==
    IF i > j THEN 0
    ELSE IF i = j THEN DigitVal(SubSeq(str, i, i))
    ELSE IF i + 1 = j THEN 10 * DigitVal(SubSeq(str, i, i)) + DigitVal(SubSeq(str, j, j))
    ELSE IF i + 2 = j
    THEN 100 * DigitVal(SubSeq(str, i, i)) + 10 * DigitVal(SubSeq(str, i + 1, i + 1))
         + DigitVal(SubSeq(str, j, j))
    ELSE 1000 * DigitVal(SubSeq(str, i, i)) + 100 * DigitVal(SubSeq(str, i + 1, i + 1))
         + 10 * DigitVal(SubSeq(str, i + 2, i + 2)) + DigitVal(SubSeq(str, j, j))

\* the magnitude written by the first n decimal digits of str, four digits
\* at a time from the right
RECURSIVE MagFromStrTo(_, _)
MagFromStrTo(str, n) ==
    IF n <= 4 THEN MagOfNat(NatOfDigits(str, 1, n))
    ELSE MagMulAddSmall(MagFromStrTo(str, n - 4), 10000, NatOfDigits(str, n - 3, n))

MagFromStr(str) == MagFromStrTo(str, Len(str))

\* the decimal digits of a natural number below 2^31 ({} of a usize)
RECURSIVE NatToStr(_)
NatToStr(n) == IF n < 10 THEN DigitChar(n) ELSE NatToStr(n \div 10) \o DigitChar(n % 10)

IntToStr(n) == IF n < 0 THEN "-" \o NatToStr(-n) ELSE NatToStr(n)

\* k characters "0"
RECURSIVE Zeros(_)
Zeros(k) ==
    IF k <= 0 THEN ""
    ELSE IF k = 1 THEN "0"
    ELSE Zeros(k \div 2) \o Zeros(k - k \div 2)

\* the four decimal digits of n < 10000
FourDigits(n) == Zeros(4 - Len(NatToStr(n))) \o NatToStr(n)

\* the decimal digits of a magnitude, four at a time
RECURSIVE MagToStr(_)
MagToStr(a) ==
    IF a = <<>> THEN "0"
    ELSE IF Len(a) = 1 THEN NatToStr(a[1])
    ELSE MagToStr(MagDivSmall(a, 10000)) \o FourDigits(MagRemSmall(a, 10000))

RECURSIVE IndexOf(_, _, _)
\* the 0-based position of the first occurrence of pat in str at or after
\* from, or -1 (str::find on str[from..])
IndexOf(str, pat, from) ==
    IF from + Len(pat) > Len(str) THEN -1
    ELSE IF SubSeq(str, from + 1, from + Len(pat)) = pat THEN from
    ELSE IndexOf(str, pat, from + 1)

contains(str, pat) == IndexOf(str, pat, 0) >= 0

(***************************************************************************)
(* num_bigint::BigInt: a sign and a magnitude; zero is not negative.       *)
(***************************************************************************)
BigInt_new(neg, mag) == [neg |-> neg /\ mag # <<>>, mag |-> mag]

\* BigInt::from of a machine integer
BigInt_from(n) == BigInt_new(n < 0, MagOfNat(Abs(n)))

BigZero == BigInt_new(FALSE, <<>>)
BigOne == BigInt_new(FALSE, <<1>>)

\* u32::MAX
U32Max == MagFromStr("4294967295")

is_zero(a) == a.mag = <<>>
is_positive(a) == ~a.neg /\ a.mag # <<>>

BigNeg(a) == BigInt_new(~a.neg, a.mag)

BigAdd(a, b) ==
    IF a.neg = b.neg THEN BigInt_new(a.neg, MagAdd(a.mag, b.mag))
    ELSE IF MagCmp(a.mag, b.mag) >= 0 THEN BigInt_new(a.neg, MagSub(a.mag, b.mag))
    ELSE BigInt_new(b.neg, MagSub(b.mag, a.mag))

BigSub(a, b) == BigAdd(a, BigNeg(b))

BigMul(a, b) == BigInt_new(a.neg # b.neg, MagMul(a.mag, b.mag))
\* BigDiv rounding the quotient toward minus infinity
BigDiv_floor(a, b) ==
    IF a.neg # b.neg /\ MagDivMod(a.mag, b.mag).r # <<>>
    THEN BigInt_new(TRUE, MagAdd(MagDivMod(a.mag, b.mag).q, <<1>>))
    ELSE BigInt_new(a.neg # b.neg, MagDivMod(a.mag, b.mag).q)

\* BigInt / and %: the quotient truncated toward zero, the remainder with the
\* sign of the dividend
BigDiv(a, b) == BigInt_new(a.neg # b.neg, MagDivMod(a.mag, b.mag).q)
BigRem(a, b) == BigInt_new(a.neg, MagDivMod(a.mag, b.mag).r)

BigSquare(a) == BigMul(a, a)

RECURSIVE BigPow(_, _)

\* BigPow of the magnitude of the base: the sign of the base is lost
BigPow_unsigned(l, exp) ==
    IF exp = <<>> THEN BigOne
    ELSE IF l.mag = <<>> \/ l.mag = <<1>> THEN BigInt_new(FALSE, l.mag)
    ELSE IF exp[1] % 2 = 1
    THEN BigMul(BigSquare(BigPow(l, MagShr(exp, 1))), BigInt_new(FALSE, l.mag))
    ELSE BigSquare(BigPow(l, MagShr(exp, 1)))

\* BigInt::pow: l to the power of the magnitude exp, by squaring; the powers
\* of 0, 1 and -1 are written down directly
BigPow(l, exp) ==
    IF exp = <<>> THEN BigOne
    ELSE IF l.mag = <<>> \/ l.mag = <<1>> THEN BigInt_new(l.neg /\ exp[1] % 2 = 1, l.mag)
    ELSE IF exp[1] % 2 = 1 THEN BigMul(BigSquare(BigPow(l, MagShr(exp, 1))), l)
    ELSE BigSquare(BigPow(l, MagShr(exp, 1)))

\* -1, 0 or 1 as a < b, a = b or a > b
BigCmp(a, b) ==
    IF a.neg # b.neg THEN (IF a.neg THEN -1 ELSE 1)
    ELSE IF a.neg THEN MagCmp(b.mag, a.mag)
    ELSE MagCmp(a.mag, b.mag)

\* s.parse::<BigInt>() of a Number lexeme without '.'
parse_bigint(lexeme) == BigInt_new(FALSE, MagFromStr(lexeme))

\* {} of a BigInt
BigToStr(a) == (IF a.neg THEN "-" ELSE "") \o MagToStr(a.mag)

(***************************************************************************)
(* f64: IEEE 754 binary64.  An f64 is [k, neg, m, e]: k is "fin", "inf" or *)
(* "nan"; a finite value is (-1)^neg * m * 2^e with m an odd magnitude     *)
(* below 2^53 (so that equal values are equal records), or m = <<>> and    *)
(* e = 0 for the two zeros.  Results are rounded to nearest, ties to even. *)
(***************************************************************************)
MantissaBits == 53
\* the exponent of the least positive f64, 2^-1074
MinExponent == -1074
\* every finite f64 is below 2^1024
MaxExponent == 1024

f64_zero(neg) == [k |-> "fin", neg |-> neg, m |-> <<>>, e |-> 0]
f64_inf(neg) == [k |-> "inf", neg |-> neg, m |-> <<>>, e |-> 0]

Inf == f64_inf(FALSE)
NegInf == f64_inf(TRUE)
NaN == [k |-> "nan", neg |-> FALSE, m |-> <<>>, e |-> 0]

FIsNaN(a) == a.k = "nan"
FIsInf(a) == a.k = "inf"
FIsFinite(a) == a.k = "fin"
FIsZero(a) == a.k = "fin" /\ a.m = <<>>

\* the f64 of value m * 2^e, which is a value of f64 unless it is too large
f64_exact(neg, m, e) ==
    IF m = <<>> THEN f64_zero(neg)
    ELSE IF MagBits(m) + e > MaxExponent THEN f64_inf(neg)
    ELSE Bind(MagTrailingZeros(m),
              LAMBDA tz : [k |-> "fin", neg |-> neg, m |-> MagShr(m, tz), e |-> e + tz])

\* the f64 nearest to (m + d) * 2^e, where 0 <= d < 1 and sticky tells
\* whether d > 0 (m then has two bits more than the mantissa holds)
f64_round_up(m, s, sticky) ==
    /\ MagBit(m, s - 1) = 1
    /\ \/ sticky
       \/ MagTrailingZeros(m) < s - 1
       \/ MagBit(m, s) = 1

\* m without its s low bits, rounded
f64_round_off(m, s, sticky) ==
    IF s <= 0 THEN m
    ELSE MagAdd(MagShr(m, s), IF f64_round_up(m, s, sticky) THEN <<1>> ELSE <<>>)

\* ulp is the exponent of the last bit that the mantissa keeps
f64_round_at(neg, m, e, sticky, ulp) ==
    f64_exact(neg, f64_round_off(m, ulp - e, sticky), Max(ulp, e))

f64_round(neg, m, e, sticky) ==
    f64_round_at(neg, m, e, sticky, Max(MagBits(m) + e - MantissaBits, MinExponent))

\* the exponent just above the leading bit of a finite non-zero f64
f64_top(a) == MagBits(a.m) + a.e

\* -1, 0 or 1 as |a| < |b|, |a| = |b| or |a| > |b|, for finite a and b
f64_cmp_abs(a, b) ==
    IF a.m = <<>> \/ b.m = <<>>
    THEN (IF a.m = b.m THEN 0 ELSE IF a.m = <<>> THEN -1 ELSE 1)
    ELSE IF f64_top(a) # f64_top(b) THEN (IF f64_top(a) < f64_top(b) THEN -1 ELSE 1)
    ELSE Bind(Min(a.e, b.e),
              LAMBDA e : MagCmp(MagShl(a.m, a.e - e), MagShl(b.m, b.e - e)))

\* f64 ==, <, <= (every comparison with NaN is false; the zeros are equal)
FEq(a, b) ==
    /\ ~FIsNaN(a) /\ ~FIsNaN(b)
    /\ IF FIsZero(a) /\ FIsZero(b) THEN TRUE ELSE a = b

\* -1, 0 or 1: the sign of the value
f64_sign(a) == IF FIsZero(a) THEN 0 ELSE IF a.neg THEN -1 ELSE 1

\* |a| < |b| for values that are not NaN
f64_lt_abs(a, b) ==
    IF FIsInf(a) THEN FALSE
    ELSE IF FIsInf(b) THEN TRUE
    ELSE f64_cmp_abs(a, b) < 0

FLt(a, b) ==
    /\ ~FIsNaN(a) /\ ~FIsNaN(b)
    /\ IF f64_sign(a) # f64_sign(b) THEN f64_sign(a) < f64_sign(b)
       ELSE IF f64_sign(a) = 1 THEN f64_lt_abs(a, b)
       ELSE IF f64_sign(a) = -1 THEN f64_lt_abs(b, a)
       ELSE FALSE

FLe(a, b) == FLt(a, b) \/ FEq(a, b)

FNeg(a) == IF FIsNaN(a) THEN a ELSE [a EXCEPT !.neg = ~a.neg]

\* the sum of two finite values
f64_sum(a, b) ==
    Bind(Min(a.e, b.e),
         LAMBDA e :
             Bind(MagShl(a.m, a.e - e),
                  LAMBDA x :
                      Bind(MagShl(b.m, b.e - e),
                           LAMBDA y :
                               IF a.neg = b.neg THEN f64_round(a.neg, MagAdd(x, y), e, FALSE)
                               ELSE IF MagCmp(x, y) = 0 THEN f64_zero(FALSE)
                               ELSE IF MagCmp(x, y) > 0
                               THEN f64_round(a.neg, MagSub(x, y), e, FALSE)
                               ELSE f64_round(b.neg, MagSub(y, x), e, FALSE))))

FAdd(a, b) ==
    IF FIsNaN(a) \/ FIsNaN(b) THEN NaN
    ELSE IF FIsInf(a) THEN (IF FIsInf(b) /\ a # b THEN NaN ELSE a)
    ELSE IF FIsInf(b) THEN b
    ELSE f64_sum(a, b)

FSub(a, b) == FAdd(a, FNeg(b))

FMul(a, b) ==
    IF FIsNaN(a) \/ FIsNaN(b) THEN NaN
    ELSE IF FIsInf(a) \/ FIsInf(b)
    THEN (IF FIsZero(a) \/ FIsZero(b) THEN NaN ELSE f64_inf(a.neg # b.neg))
    ELSE f64_round(a.neg # b.neg, MagMul(a.m, b.m), a.e + b.e, FALSE)

f64_ratio_round(neg, d, e) == f64_round(neg, d.q, e, d.r # <<>>)

\* the f64 nearest to num / den * 2^e, for num > 0: the dividend is shifted
\* so that the integer quotient has at least two bits more than the mantissa
f64_ratio_shifted(neg, num, den, e, s) ==
    f64_ratio_round(neg, MagDivMod(MagShl(num, s), den), e - s)

f64_ratio(neg, num, den, e) ==
    f64_ratio_shifted(neg, num, den, e, Max(0, MantissaBits + 2 + MagBits(den) - MagBits(num)))

\* the quotient of two finite non-zero values: the dividend is shifted so
\* that the integer quotient has at least two bits more than the mantissa
f64_quotient(a, b) == f64_ratio(a.neg # b.neg, a.m, b.m, a.e - b.e)

FDiv(a, b) ==
    IF FIsNaN(a) \/ FIsNaN(b) THEN NaN
    ELSE IF FIsInf(a) THEN (IF FIsInf(b) THEN NaN ELSE f64_inf(a.neg # b.neg))
    ELSE IF FIsInf(b) THEN f64_zero(a.neg # b.neg)
    ELSE IF FIsZero(b) THEN (IF FIsZero(a) THEN NaN ELSE f64_inf(a.neg # b.neg))
    ELSE IF FIsZero(a) THEN f64_zero(a.neg # b.neg)
    ELSE f64_quotient(a, b)

\* the remainder of two finite non-zero values: exact, with the sign of a
f64_remainder(a, b) ==
    Bind(Min(a.e, b.e),
         LAMBDA e :
             f64_exact(a.neg,
                       MagDivMod(MagShl(a.m, a.e - e), MagShl(b.m, b.e - e)).r,
                       e))

\* l_f % r_f (fmod)
FRem(a, b) ==
    IF FIsNaN(a) \/ FIsNaN(b) \/ FIsInf(a) \/ FIsZero(b) THEN NaN
    ELSE IF FIsInf(b) \/ FIsZero(a) THEN a
    ELSE f64_remainder(a, b)

\* r_f.abs() < f64::EPSILON, EPSILON being 2^-52
FBelowEpsilon(a) == FIsFinite(a) /\ (FIsZero(a) \/ f64_top(a) <= -52)

\* BigInt::to_f64: the nearest f64 (num-bigint 0.4 keeps a sticky bit below
\* the 64 bits it converts, and yields an infinity for a value too large)
to_f64(n) == f64_round(n.neg, n.mag, 0, FALSE)

\* the f64 nearest to digits * 10^t
dec_to_f64(digits, t) ==
    IF digits = <<>> THEN f64_zero(FALSE)
    ELSE f64_ratio(FALSE, MagMul(digits, MagPow(<<10>>, Max(t, 0))), MagPow(<<10>>, Max(-t, 0)), 0)

\* s.parse::<f64>() of a Number lexeme with a '.': digits '.' digits
parse_f64(lexeme) ==
    Bind(IndexOf(lexeme, ".", 0),
         LAMBDA dot :
             dec_to_f64(MagFromStr(SubSeq(lexeme, 1, dot)
                                   \o SubSeq(lexeme, dot + 2, Len(lexeme))),
                        dot + 1 - Len(lexeme)))
\* the f64 1.0
f64_one == [k |-> "fin", neg |-> FALSE, m |-> <<1>>, e |-> 0]

\* whether a finite f64 is an integer, an odd integer
f64_is_integer(b) == FIsZero(b) \/ b.e >= 0
f64_is_odd(b) == ~FIsZero(b) /\ b.e = 0

\* the number of a magnitude below 2^31
RECURSIVE MagToNat(_)
MagToNat(a) == IF a = <<>> THEN 0 ELSE a[1] + Radix * MagToNat(Tail(a))

\* the cases of powf that IEEE 754 fixes whatever the magnitudes: an
\* exponent of zero, a base of one, NaN, an infinity or a zero among the
\* operands, a negative base with a fractional exponent, a base of -1
f64_pow_is_special(a, b) ==
    \/ ~FIsFinite(a) \/ ~FIsFinite(b)
    \/ FIsZero(a) \/ FIsZero(b)
    \/ a.m = <<1>> /\ a.e = 0
    \/ a.neg /\ ~f64_is_integer(b)

f64_pow_special(a, b) ==
    IF FIsZero(b) \/ a = f64_one THEN f64_one
    ELSE IF FIsNaN(a) \/ FIsNaN(b) THEN NaN
    ELSE IF FIsInf(b)
    THEN IF FIsFinite(a) /\ a.m = <<1>> /\ a.e = 0 THEN f64_one
         ELSE IF (FIsFinite(a) /\ f64_cmp_abs(a, f64_one) < 0) = b.neg THEN Inf
         ELSE f64_zero(FALSE)
    ELSE IF FIsInf(a) \/ FIsZero(a)
    THEN IF FIsInf(a) = b.neg
         THEN f64_zero(a.neg /\ f64_is_odd(b))
         ELSE f64_inf(a.neg /\ f64_is_odd(b))
    ELSE IF ~f64_is_integer(b) THEN NaN
    ELSE f64_exact(f64_is_odd(b), <<1>>, 0)

\* the greatest number of bits of an integer exponent of powf that the model
\* raises a base to
PowExponentBits == 10

\* [ok, v]: the f64 of the value p * 2^e, p odd, where it is certain: the
\* value is a value of f64, or it is beyond the range of f64
f64_pow_value(neg, p, e) ==
    IF e + MagBits(p) > MaxExponent THEN [ok |-> TRUE, v |-> f64_inf(neg)]
    ELSE IF e + MagBits(p) < MinExponent - 1 THEN [ok |-> TRUE, v |-> f64_zero(neg)]
    ELSE IF MagBits(p) <= MantissaBits /\ e >= MinExponent
    THEN [ok |-> TRUE, v |-> f64_exact(neg, p, e)]
    ELSE [ok |-> FALSE, v |-> NaN]

\* [ok, v]: the f64 of the value 2^e / p, p odd and above 1, where it is
\* certain: the value is beyond the range of f64
f64_pow_inverse(neg, p, e) ==
    IF e - MagBits(p) >= MaxExponent THEN [ok |-> TRUE, v |-> f64_inf(neg)]
    ELSE IF e - MagBits(p) + 1 < MinExponent - 1 THEN [ok |-> TRUE, v |-> f64_zero(neg)]
    ELSE [ok |-> FALSE, v |-> NaN]

\* [ok, v]: the f64 of a value v with 2^lo <= v < 2^hi, where it is certain:
\* the value is beyond the range of f64
f64_pow_between(neg, lo, hi) ==
    IF lo >= MaxExponent THEN [ok |-> TRUE, v |-> f64_inf(neg)]
    ELSE IF hi <= MinExponent - 1 THEN [ok |-> TRUE, v |-> f64_zero(neg)]
    ELSE [ok |-> FALSE, v |-> NaN]

\* a to the power k or -k, for the k > 0 of the integer b: the power p of the
\* mantissa is taken where it may fit a mantissa, and is between
\* 2^(k * (bits - 1)) and 2^(k * bits) where it does not
f64_pow_exact(a, b, k, p) ==
    IF ~b.neg THEN f64_pow_value(a.neg /\ f64_is_odd(b), p, a.e * k)
    ELSE IF p = <<1>> THEN f64_pow_value(a.neg /\ f64_is_odd(b), p, -(a.e * k))
    ELSE f64_pow_inverse(a.neg /\ f64_is_odd(b), p, -(a.e * k))

f64_pow_wide(a, b, k, bits) ==
    IF ~b.neg
    THEN f64_pow_between(a.neg /\ f64_is_odd(b), a.e * k + k * (bits - 1), a.e * k + k * bits)
    ELSE f64_pow_between(a.neg /\ f64_is_odd(b),
                         -(a.e * k) - k * bits, -(a.e * k) - k * (bits - 1))

f64_pow_natural(a, b, k) ==
    IF k * (MagBits(a.m) - 1) < MantissaBits THEN f64_pow_exact(a, b, k, MagPow(a.m, k))
    ELSE f64_pow_wide(a, b, k, MagBits(a.m))

\* [ok, v]: a to the integer power b, for finite non-zero a and b with
\* |a| # 1, where the value of f64 is certain.  (Where the power has to be
\* rounded, the result of the platform's pow is within one unit in the
\* last place of it.)
f64_pow_integer(a, b) ==
    IF ~f64_is_integer(b) \/ f64_top(b) > PowExponentBits
    THEN [ok |-> FALSE, v |-> NaN]
    ELSE f64_pow_natural(a, b, MagToNat(MagShl(b.m, b.e)))

\* whether l_f.powf(r_f) is a value the model holds
FPowModelled(a, b) == f64_pow_is_special(a, b) \/ f64_pow_integer(a, b).ok

\* l_f.powf(r_f)
FPow(a, b) ==
    IF f64_pow_is_special(a, b) THEN f64_pow_special(a, b) ELSE f64_pow_integer(a, b).v

(***************************************************************************)
(* Text of an f64 (core::fmt of f64, by core::num::flt2dec): the shortest  *)
(* decimal digits that parse back to it, the nearest to it among the       *)
(* shortest.                                                               *)
(***************************************************************************)
\* flt2dec::decode of a finite positive f64: the value is mant * 2^exp, and
\* every number between (mant - minus) * 2^exp and (mant + plus) * 2^exp
\* rounds to it, the two ends too if inclusive (the mantissa of 53 bits is
\* even).  The ends are half-way to the next f64 on either side, which is
\* nearer below a power of two; a subnormal f64 has a mantissa of fewer bits.
flt2dec_decoded(a, normal, exp) ==
    [mant |-> MagShl(a.m, a.e - exp),
     minus |-> <<1>>,
     plus |-> IF normal /\ a.m = <<1>> THEN <<2>> ELSE <<1>>,
     exp |-> exp,
     inclusive |-> ~normal \/ MagBits(a.m) < MantissaBits]

flt2dec_decode_normal(a, normal) ==
    flt2dec_decoded(a, normal,
                    IF ~normal THEN MinExponent - 1
                    ELSE IF a.m = <<1>> THEN f64_top(a) - MantissaBits - 2
                    ELSE f64_top(a) - MantissaBits - 1)

flt2dec_decode(a) == flt2dec_decode_normal(a, f64_top(a) >= MinExponent + MantissaBits)

\* estimate_scaling_factor: k with 10^(k - 1) < mant * 2^exp <= 10^(k + 1),
\* the floor of log10(2) times the number of bits.  (30103 / 100000 has the
\* floor of the 1292913986 / 2^32 of the source for every exponent of f64.)
estimate_scaling_factor(mant, exp) ==
    ((MagBits(MagSub(mant, <<1>>)) + exp) * 30103) \div 100000

\* x.cmp(y) < rounding, rounding being Greater if inclusive and Equal if not
flt2dec_below(x, y, inclusive) == IF inclusive THEN MagCmp(x, y) <= 0 ELSE MagCmp(x, y) < 0

\* round_up: the digits buf plus one in the last place; k grows where the
\* digits were all 9
dragon_rounded_up(buf, k, text) == [ds |-> text, k |-> k + Len(text) - Len(buf)]

dragon_round_up(buf, k, round) ==
    IF round THEN dragon_rounded_up(buf, k, MagToStr(MagAdd(MagFromStr(buf), <<1>>)))
    ELSE [ds |-> buf, k |-> k]

\* the loop of dragon::format_shortest: the next digit is mant / scale; the
\* digits stop where the remainder is within minus of the digits so far
\* (down) or within plus of the next number of as many digits (up), and are
\* rounded up if that is the nearer
RECURSIVE dragon_loop(_, _, _, _, _, _, _)
dragon_stop(mant, minus, plus, scale, inclusive, buf, k, down, up) ==
    IF down \/ up
    THEN dragon_round_up(buf, k, up /\ (~down \/ MagCmp(MagMulSmall(mant, 2), scale) >= 0))
    ELSE dragon_loop(MagMulSmall(mant, 10), MagMulSmall(minus, 10), MagMulSmall(plus, 10),
                     scale, inclusive, buf, k)

dragon_digit(d, minus, plus, scale, inclusive, buf, k) ==
    dragon_stop(d.r, minus, plus, scale, inclusive,
                buf \o DigitChar(DigitAt(d.q, 1)), k,
                flt2dec_below(d.r, minus, inclusive),
                flt2dec_below(scale, MagAdd(d.r, plus), inclusive))

dragon_loop(mant, minus, plus, scale, inclusive, buf, k) ==
    dragon_digit(MagDivMod(mant, scale), minus, plus, scale, inclusive, buf, k)

\* the fixup of format_shortest: k is one more if mant + plus is above scale
dragon_fixup(mant, minus, plus, scale, inclusive, k) ==
    IF flt2dec_below(scale, MagAdd(mant, plus), inclusive)
    THEN dragon_loop(mant, minus, plus, scale, inclusive, "", k + 1)
    ELSE dragon_loop(MagMulSmall(mant, 10), MagMulSmall(minus, 10), MagMulSmall(plus, 10),
                     scale, inclusive, "", k)

\* mant, minus and plus over scale, divided by 10^k: p is 10^|k|
dragon_scaled(x, exp, k, p) == MagMul(MagShl(x, Max(exp, 0)), IF k < 0 THEN p ELSE <<1>>)

dragon_scale(d, k, p) ==
    dragon_fixup(dragon_scaled(d.mant, d.exp, k, p), dragon_scaled(d.minus, d.exp, k, p),
                 dragon_scaled(d.plus, d.exp, k, p),
                 MagMul(MagShl(<<1>>, Max(-d.exp, 0)), IF k >= 0 THEN p ELSE <<1>>),
                 d.inclusive, k)

dragon_estimated(d, k) == dragon_scale(d, k, MagPow(<<10>>, Abs(k)))

\* flt2dec::strategy::dragon::format_shortest: [ds, k], the value is written
\* 0.ds * 10^k
format_shortest(d) ==
    dragon_estimated(d, estimate_scaling_factor(MagAdd(d.mant, d.plus), d.exp))

\* the decimal digits of the value of a finite positive f64 of exponent -21
\* or more and below 2^50: m * 2^e, or m * 5^-e over 10^-e
f64_decimal(a) ==
    IF a.e >= 0 THEN MagToStr(MagShl(a.m, a.e)) ELSE MagToStr(MagMul(a.m, MagPow(<<5>>, -a.e)))

\* ds without the zeros that end it
RECURSIVE strip_zeros(_)
strip_zeros(ds) ==
    IF Len(ds) > 1 /\ SubSeq(ds, Len(ds), Len(ds)) = "0"
    THEN strip_zeros(SubSeq(ds, 1, Len(ds) - 1))
    ELSE ds

\* a value of 15 decimal digits or fewer (f64::DIGITS) is the only number of
\* so few digits that rounds to its f64, so that its digits are the
\* shortest; format_shortest finds the digits of every other value
f64_shortest_digits(a, s, ds) ==
    IF Len(ds) <= 15 THEN [ds |-> ds, k |-> Len(s) + Min(a.e, 0)]
    ELSE format_shortest(flt2dec_decode(a))

f64_shortest_short(a, s) == f64_shortest_digits(a, s, strip_zeros(s))

\* [ds, k]: the finite positive a is written 0.ds * 10^k
f64_shortest(a) ==
    IF a.e >= -21 /\ f64_top(a) <= 50 THEN f64_shortest_short(a, f64_decimal(a))
    ELSE format_shortest(flt2dec_decode(a))

\* the decimal text 0.ds * 10^k with at least min_frac fraction digits
decimal_text(ds, k, min_frac) ==
    IF k <= 0 THEN "0." \o Zeros(-k) \o ds
    ELSE IF k < Len(ds) THEN SubSeq(ds, 1, k) \o "." \o SubSeq(ds, k + 1, Len(ds))
    ELSE ds \o Zeros(k - Len(ds)) \o (IF min_frac > 0 THEN "." \o Zeros(min_frac) ELSE "")

\* the exponential text of 0.ds * 10^k
exponential_text(ds, k) ==
    SubSeq(ds, 1, 1) \o (IF Len(ds) > 1 THEN "." \o SubSeq(ds, 2, Len(ds)) ELSE "")
    \o "e" \o IntToStr(k - 1)

\* {} of an f64
FloatToStr(a) ==
    IF FIsNaN(a) THEN "NaN"
    ELSE (IF a.neg THEN "-" ELSE "")
         \o (IF FIsInf(a) THEN "inf"
             ELSE IF FIsZero(a) THEN "0"
             ELSE Bind(f64_shortest([a EXCEPT !.neg = FALSE]),
                       LAMBDA r : decimal_text(r.ds, r.k, 0)))

\* {:?} of an f64: at least one fraction digit, and the exponential text for
\* a value of 1e16 or more, or below 1e-4
FloatDebug(a) ==
    IF FIsNaN(a) THEN "NaN"
    ELSE (IF a.neg THEN "-" ELSE "")
         \o (IF FIsInf(a) THEN "inf"
             ELSE IF FIsZero(a) THEN "0.0"
             ELSE Bind(f64_shortest([a EXCEPT !.neg = FALSE]),
                       LAMBDA r : IF r.k >= 17 \/ r.k <= -4
                                  THEN exponential_text(r.ds, r.k)
                                  ELSE decimal_text(r.ds, r.k, 1)))

(***************************************************************************)
(* Values (enum Value).  A value is a record with one payload field per    *)
(* variant; the fields of the other variants hold fixed defaults.          *)
(***************************************************************************)
VInteger(n) == [t |-> "Integer", i |-> n, f |-> f64_zero(FALSE), s |-> "", b |-> FALSE]
VFloat(x) == [t |-> "Float", i |-> BigZero, f |-> x, s |-> "", b |-> FALSE]
VStr(str) == [t |-> "String", i |-> BigZero, f |-> f64_zero(FALSE), s |-> str, b |-> FALSE]
VBool(bool) == [t |-> "Boolean", i |-> BigZero, f |-> f64_zero(FALSE), s |-> "", b |-> bool]
Void == [t |-> "Void", i |-> BigZero, f |-> f64_zero(FALSE), s |-> "", b |-> FALSE]

\* Value::Integer(BigInt::from(n))
VInt(n) == VInteger(BigInt_from(n))

is_number(v) == v.t \in {"Integer", "Float"}

\* impl fmt::Display for Value
Display(v) ==
    CASE v.t = "Integer" -> BigToStr(v.i)
      [] v.t = "Float" -> FloatToStr(v.f)
      [] v.t = "String" -> "\"" \o v.s \o "\""
      [] v.t = "Boolean" -> IF v.b THEN "true" ELSE "false"
      [] v.t = "Void" -> "void"

\* the printable form used by print: a String without its quotes
Printable(v) == IF v.t = "String" THEN v.s ELSE Display(v)

\* #[derive(PartialEq)] for Value: f64 equality makes NaN unequal to itself
ValueEq(a, b) == IF a.t = "Float" /\ b.t = "Float" THEN FEq(a.f, b.f) ELSE a = b

(***************************************************************************)
(* Interpreter.  Environment and FuncDefs are functions from names.  An     *)
(* evaluation yields a record R: ok with val, or not ok with err; env and  *)
(* out are the Environment it was given and the lines of stdout, as the    *)
(* evaluation left them (also when it failed).                             *)
(***************************************************************************)
EmptyEnv == [n \in {} |-> Void]
EmptyDefs == [n \in {} |-> [params |-> <<>>, body |-> <<>>]]

\* HashMap::insert
insert(map, key, value) ==
    [n \in DOMAIN map \cup {key} |-> IF n = key THEN value ELSE map[n]]

ROk(val, e, o) == [ok |-> TRUE, val |-> val, err |-> "", env |-> e, out |-> o]
RErr(msg, e, o) == [ok |-> FALSE, val |-> Void, err |-> msg, env |-> e, out |-> o]

\* {:?} of a Value
DebugVal(v) ==
    CASE v.t = "Float" ->
"Float(" \o FloatDebug(v.f) \o ")"
      [] v.t = "Void" -> "Void"
      [] OTHER -> v.t \o "(" \o Display(v) \o ")"

\* a pure result: [ok, val, err]
VOk(val) == [ok |-> TRUE, val |-> val, err |-> ""]
VErr(msg) == [ok |-> FALSE, val |-> Void, err |-> msg]

\* (Integer, Integer) arithmetic of eval
int_arith(op, l, r) ==
    CASE op = "+" -> VOk(VInteger(BigAdd(l, r)))
      [] op = "-" -> VOk(VInteger(BigSub(l, r)))
      [] op = "*" -> VOk(VInteger(BigMul(l, r)))
      [] op = "%" ->
            IF is_zero(r) THEN VErr("Modulo by zero") ELSE VOk(VInteger(BigRem(l, r)))
      [] op = "/" ->
            IF is_zero(r) THEN VErr("Division by zero") ELSE VOk(VInteger(BigDiv(l, r)))
      [] op = "^" ->
            IF is_positive(r) /\ MagCmp(r.mag, U32Max) <= 0
            THEN VOk(VInteger(BigPow(l, r.mag)))
            ELSE IF is_zero(r) THEN VOk(VInteger(BigOne))
            ELSE VErr("Integer exponentiation only supports positive exponents up to u32 max")
      [] OTHER -> VErr("Unknown numeric infix operator: " \o op)

\* the coercion of a number to f64
coerce_f64(v) == IF v.t = "Float" THEN v.f ELSE to_f64(v.i)

\* mixed or Float arithmetic of eval
float_arith(op, l_f, r_f) ==
    CASE op = "+" -> VOk(VFloat(FAdd(l_f, r_f)))
      [] op = "-" -> VOk(VFloat(FSub(l_f, r_f)))
      [] op = "*" -> VOk(VFloat(FMul(l_f, r_f)))
      [] op = "%" ->
            IF FBelowEpsilon(r_f) THEN VErr("Modulo by zero in float operation")
            ELSE VOk(VFloat(FRem(l_f, r_f)))
      [] op = "/" ->
            IF FBelowEpsilon(r_f) THEN VErr("Division by zero in float operation")
            ELSE VOk(VFloat(FDiv(l_f, r_f)))
      [] op = "^" ->
            IF FPowModelled(l_f, r_f) THEN VOk(VFloat(FPow(l_f, r_f)))
            ELSE VErr("model: powf with a fractional exponent")
      [] OTHER -> VErr("Unknown numeric infix operator: " \o op)

\* the match (left_val, right_val) of eval's arithmetic
arith(op, l, r) ==
    IF l.t = "Integer" /\ r.t = "Integer" THEN int_arith(op, l.i, r.i)
    ELSE IF l.t = "String" /\ r.t = "String" /\ op = "+" THEN VOk(VStr(l.s \o r.s))
    ELSE IF is_number(l) /\ is_number(r)
    THEN float_arith(op, coerce_f64(l), coerce_f64(r))
    ELSE VErr("Incompatible types for operator '" \o op \o "': " \o DebugVal(l)
              \o " and " \o DebugVal(r))

\* non_strict_equal with a coercion that equates every two numbers
non_strict_equal_numbers(l, r) == ValueEq(l, r) \/ (is_number(l) /\ is_number(r))

\* the non_strict_equal of eval
non_strict_equal(l, r) ==
    IF ValueEq(l, r) THEN TRUE
    ELSE IF l.t = "Integer" /\ r.t = "Float" THEN FEq(to_f64(l.i), r.f)
    ELSE IF l.t = "Float" /\ r.t = "Integer" THEN FEq(l.f, to_f64(r.i))
    ELSE FALSE

\* the Float arm of the ordering comparisons
float_ordering(op, l, r) ==
    CASE op = "<" -> FLt(l, r)
      [] op = ">" -> FLt(r, l)
      [] op = "<=" -> FLe(l, r)
      [] op = ">=" -> FLe(r, r)

\* the printable ASCII characters (without the backquote) in byte order
AsciiOrder ==
    " !\"#$%&'()*+,-./0123456789:;<=>?@ABCDEFGHIJKLMNOPQRSTUVWXYZ[\\]^_abcdefghijklmnopqrstuvwxyz{|}~"

\* l < r of two Strings: the order of their bytes
RECURSIVE StrLt(_, _)
StrLt(a, b) ==
    IF b = "" THEN FALSE
    ELSE IF a = "" THEN TRUE
    ELSE IF Head(a) = Head(b) THEN StrLt(Tail(a), Tail(b))
    ELSE IndexOf(AsciiOrder, Head(a), 0) < IndexOf(AsciiOrder, Head(b), 0)
\* ordering converting an Integer to f64 when the other operand is a Float,
\* as the arithmetic operators do
ordering_coerced(op, l, r) ==
    IF l.t = "Integer" /\ r.t = "Integer"
    THEN VOk(VBool(CASE op = "<" -> BigCmp(l.i, r.i) < 0 [] op = ">" -> BigCmp(l.i, r.i) > 0
                     [] op = "<=" -> BigCmp(l.i, r.i) <= 0
                     [] op = ">=" -> BigCmp(l.i, r.i) >= 0))
    ELSE IF is_number(l) /\ is_number(r)
    THEN VOk(VBool(float_ordering(op, coerce_f64(l), coerce_f64(r))))
    ELSE IF l.t = "String" /\ r.t = "String"
    THEN VOk(VBool(CASE op = "<" -> StrLt(l.s, r.s) [] op = ">" -> StrLt(r.s, l.s)
                     [] op = "<=" -> ~StrLt(r.s, l.s) [] op = ">=" -> ~StrLt(l.s, r.s)))
    ELSE VErr("Incompatible types for ordering operator '" \o op \o "': " \o DebugVal(l)
              \o " and " \o DebugVal(r))

\* the ordering comparisons of eval
ordering(op, l, r) ==
    IF l.t = "Integer" /\ r.t = "Integer"
    THEN VOk(VBool(CASE op = "<" -> BigCmp(l.i, r.i) < 0 [] op = ">" -> BigCmp(l.i, r.i) > 0
                     [] op = "<=" -> BigCmp(l.i, r.i) <= 0
                     [] op = ">=" -> BigCmp(l.i, r.i) >= 0))
    ELSE IF l.t = "Float" /\ r.t = "Float" THEN VOk(VBool(float_ordering(op, l.f, r.f)))
    ELSE IF l.t = "String" /\ r.t = "String"
    THEN VOk(VBool(CASE op = "<" -> StrLt(l.s, r.s) [] op = ">" -> StrLt(r.s, l.s)
                     [] op = "<=" -> ~StrLt(r.s, l.s) [] op = ">=" -> ~StrLt(l.s, r.s)))
    ELSE VErr("Incompatible types for ordering operator '" \o op \o "': " \o DebugVal(l)
              \o " and " \o DebugVal(r))

\* the match on op of eval's Expr::Cmp
compare(op, l, r) ==
    CASE op = "===" -> VOk(VBool(ValueEq(l, r)))
      [] op = "!==" -> VOk(VBool(~ValueEq(l, r)))
      [] op = "==" -> VOk(VBool(non_strict_equal(l, r)))
      [] op = "!=" -> VOk(VBool(~non_strict_equal(l, r)))
      [] op \in {"<", ">", "<=", ">="} -> ordering(op, l, r)
      [] OTHER -> VErr("Unknown comparison operator: " \o op)

\* short_circuit_val without its two arms: the right operand is always evaluated
short_circuit_val_none(op, left_val) == NoneOpt

\* the short_circuit_val of eval's Expr::Logic: Option<Value>
short_circuit_val(op, left_val) ==
    IF op = "and" /\ left_val = VBool(FALSE) THEN Some(VBool(FALSE))
    ELSE IF op = "or" /\ left_val = VBool(TRUE) THEN Some(VBool(TRUE))
    ELSE NoneOpt

\* the final match of eval's Expr::Logic
logic(op, l, r) ==
    IF op = "and" /\ l.t = "Boolean" /\ r.t = "Boolean" THEN VOk(VBool(l.b /\ r.b))
    ELSE IF op = "or" /\ l.t = "Boolean" /\ r.t = "Boolean" THEN VOk(VBool(l.b \/ r.b))
    ELSE VErr("Logical operator '" \o op \o "' only works on Booleans. Found "
              \o DebugVal(l) \o " and " \o DebugVal(r))

\* prefix refusing the operands that are not numbers under both operators
prefix_numbers_only(op, val) ==
    IF op \in {"+", "-"} /\ val.t \notin {"Integer", "Float"}
    THEN VErr("Unary operator only works on numbers, found " \o DebugVal(val))
    ELSE CASE op = "+" -> VOk(val)
           [] op = "-" ->
                 IF val.t = "Integer" THEN VOk(VInteger(BigNeg(val.i)))
                 ELSE VOk(VFloat(FNeg(val.f)))
           [] OTHER -> VErr("Unknown prefix operator: " \o op)

\* the match on op of eval's Expr::Prefix
prefix(op, val) ==
    CASE op = "+" -> VOk(val)
      [] op = "-" ->
            IF val.t = "Integer" THEN VOk(VInteger(BigNeg(val.i)))
            ELSE IF val.t = "Float" THEN VOk(VFloat(FNeg(val.f)))
            ELSE VErr("Unary minus only works on numbers, found " \o DebugVal(val))
      [] OTHER -> VErr("Unknown prefix operator: " \o op)

RECURSIVE format_loop(_, _, _, _)

\* format_loop leaving out the arguments that find no placeholder
format_loop_lenient(format_string, output, results, current_pos) ==
    IF results = <<>> THEN [ok |-> TRUE, text |-> output, err |-> ""]
    ELSE Bind(Printable(Head(results)), LAMBDA result_str :
         Bind(IndexOf(output, "{}", current_pos), LAMBDA full_start :
             IF full_start < 0
             THEN [ok |-> TRUE, text |-> output, err |-> ""]
             ELSE format_loop(format_string,
                              SubSeq(output, 1, full_start) \o result_str
                              \o SubSeq(output, full_start + 2 + 1, Len(output)),
                              Tail(results), full_start + Len(result_str))))

\* format_loop searching again from the start of the text it has just put in
format_loop_rescan(format_string, output, results, current_pos) ==
    IF results = <<>> THEN [ok |-> TRUE, text |-> output, err |-> ""]
    ELSE Bind(Printable(Head(results)), LAMBDA result_str :
         Bind(IndexOf(output, "{}", current_pos), LAMBDA full_start :
             IF full_start < 0
             THEN [ok |-> FALSE, text |-> "",
                   err |-> "Not enough placeholders ({}) in format string: \""
                           \o format_string \o "\""]
             ELSE format_loop(format_string,
                              SubSeq(output, 1, full_start) \o result_str
                              \o SubSeq(output, full_start + 2 + 1, Len(output)),
                              Tail(results), full_start)))

\* the substitution loop of a print with a format string: [ok, text, err]
format_loop(format_string, output, results, current_pos) ==
    IF results = <<>> THEN [ok |-> TRUE, text |-> output, err |-> ""]
    ELSE Bind(Printable(Head(results)), LAMBDA result_str :
         Bind(IndexOf(output, "{}", current_pos), LAMBDA full_start :
             IF full_start < 0
             THEN [ok |-> FALSE, text |-> "",
                   err |-> "Not enough placeholders ({}) in format string: \""
                           \o format_string \o "\""]
             ELSE format_loop(format_string,
                              SubSeq(output, 1, full_start) \o result_str
                              \o SubSeq(output, full_start + 2 + 1, Len(output)),
                              Tail(results), full_start + Len(result_str))))

\* the text a print statement emits, from its evaluated arguments
print_output(opt_format_string, results) ==
    IF opt_format_string # NoneOpt
    THEN format_loop(opt_format_string[1], opt_format_string[1], results, 0)
    ELSE IF Len(results) # 1
    THEN [ok |-> FALSE, text |-> "",
          err |-> "Simple print (without format string) expects exactly one argument"]
    ELSE [ok |-> TRUE, text |-> Printable(results[1]), err |-> ""]

\* FunctionControlFlow
Continue(val) == [c |-> "Continue", val |-> val, text |-> ""]
Return(val) == [c |-> "Return", val |-> val, text |-> ""]
PrintFlow(text) == [c |-> "Print", val |-> Void, text |-> text]

\* the result of a statement in function context
FOk(flow, e, o) == [ok |-> TRUE, flow |-> flow, err |-> "", env |-> e, out |-> o]
FErr(msg, e, o) == [ok |-> FALSE, flow |-> Continue(Void), err |-> msg, env |-> e, out |-> o]

\* the depth of nested calls at which the stack of the process is taken to
\* overflow (the process then aborts)
MaxDepth == 4

\* the local Environment of a call: each parameter bound to its argument
RECURSIVE bind_params(_, _, _)
bind_params(local_env, params, evaluated_args) ==
    IF params = <<>> \/ evaluated_args = <<>> THEN local_env
    ELSE bind_params(insert(local_env, Head(params), Head(evaluated_args)),
                     Tail(params), Tail(evaluated_args))

\* new_local_env starting from the bindings of the caller
new_local_env_inherit(params, evaluated_args, caller_env) ==
    bind_params(caller_env, params, evaluated_args)

new_local_env(params, evaluated_args, caller_env) ==
    bind_params(EmptyEnv, params, evaluated_args)

\* call_check without the comparison of the two lengths
call_check_no_arity(fn_name, n_args, fd) ==
    IF fn_name \notin DOMAIN fd THEN "Function '" \o fn_name \o "' is not defined"
    ELSE ""

\* the checks of execute_function that precede the evaluation of the
\* arguments: the error message, or "" when the call may proceed
call_check(fn_name, n_args, fd) ==
    IF fn_name \notin DOMAIN fd THEN "Function '" \o fn_name \o "' is not defined"
    ELSE IF Len(fd[fn_name].params) # n_args
    THEN "Function '" \o fn_name \o "' expects " \o IntToStr(Len(fd[fn_name].params))
         \o " arguments, but received " \o IntToStr(n_args)
    ELSE ""

\* env_after_call handing the local Environment of the call back to the caller
env_after_call_local(caller_env, local_env) == local_env

\* the Environment a call leaves to its caller: caller_env, in which the
\* arguments were evaluated; the local Environment is dropped
env_after_call(caller_env, local_env) == caller_env

\* stops_on_return taking a Return carrier for a Continue
stops_on_return_never(flow) == FALSE

\* what the body loops do with a Return carrier: whether they stop
stops_on_return(flow) == flow.c = "Return"

RECURSIVE eval(_, _, _, _, _)
RECURSIVE eval_all(_, _, _, _, _, _)
RECURSIVE execute_function(_, _, _, _, _, _)
RECURSIVE function_body_loop(_, _, _, _, _, _, _, _)
RECURSIVE run_statement_in_function(_, _, _, _, _)
RECURSIVE if_body_loop(_, _, _, _, _, _)

\* the Ok or Err of a pure operation v, in the Environment and stdout that
\* the evaluation r of its last operand left
pure_result(v, r) ==
    IF v.ok THEN ROk(v.val, r.env, r.out) ELSE RErr(v.err, r.env, r.out)

\* eval(expr, env, func_defs); out is stdout so far, depth the stack left
eval(expr, e, fd, o, depth) ==
    CASE expr.e = "Num" ->
            IF contains(expr.s, ".") THEN ROk(VFloat(parse_f64(expr.s)), e, o)
            ELSE ROk(VInteger(parse_bigint(expr.s)), e, o)
      [] expr.e = "Str" -> ROk(VStr(expr.s), e, o)
      [] expr.e = "Var" ->
            IF expr.id \in DOMAIN e THEN ROk(e[expr.id], e, o)
            ELSE RErr("Cannot evaluate uninitialized variable: " \o expr.id, e, o)
      [] expr.e = "Call" -> execute_function(expr.name, expr.args, e, fd, o, depth)
      [] expr.e = "Infix" /\ expr.op = "=" ->
            IF expr.lhs.e # "Var" THEN RErr("Assignment target must be a variable", e, o)
            ELSE Bind(eval(expr.rhs, e, fd, o, depth), LAMBDA r :
                      IF r.ok THEN ROk(r.val, insert(r.env, expr.lhs.id, r.val), r.out)
                      ELSE r)
      [] expr.e = "Prefix" ->
            Bind(eval(expr.rhs, e, fd, o, depth), LAMBDA r :
                 IF r.ok THEN pure_result(prefix(expr.op, r.val), r) ELSE r)
      [] expr.e = "Infix" /\ expr.op # "=" ->
            Bind(eval(expr.lhs, e, fd, o, depth), LAMBDA l :
                 IF ~l.ok THEN l
                 ELSE Bind(eval(expr.rhs, l.env, fd, l.out, depth), LAMBDA r :
                           IF r.ok THEN pure_result(arith(expr.op, l.val, r.val), r)
                           ELSE r))
      [] expr.e = "Cmp" ->
            Bind(eval(expr.lhs, e, fd, o, depth), LAMBDA l :
                 IF ~l.ok THEN l
                 ELSE Bind(eval(expr.rhs, l.env, fd, l.out, depth), LAMBDA r :
                           IF r.ok THEN pure_result(compare(expr.op, l.val, r.val), r)
                           ELSE r))
      [] expr.e = "Logic" ->
            Bind(eval(expr.lhs, e, fd, o, depth), LAMBDA l :
                 IF ~l.ok THEN l
                 ELSE Bind(short_circuit_val(expr.op, l.val), LAMBDA val :
                      IF val # NoneOpt THEN ROk(val[1], l.env, l.out)
                      ELSE Bind(eval(expr.rhs, l.env, fd, l.out, depth), LAMBDA r :
                                IF r.ok THEN pure_result(logic(expr.op, l.val, r.val), r)
                                ELSE r)))

\* exprs.iter().map(eval).collect::<Result<Vec<Value>, String>>(): the values
\* (in val, a sequence) or the first error; acc holds the values so far
eval_all(exprs, acc, e, fd, o, depth) ==
    IF exprs = <<>> THEN [ok |-> TRUE, val |-> acc, err |-> "", env |-> e, out |-> o]
    ELSE Bind(eval(Head(exprs), e, fd, o, depth), LAMBDA r :
              IF r.ok THEN eval_all(Tail(exprs), Append(acc, r.val), r.env, fd, r.out, depth)
              ELSE [ok |-> FALSE, val |-> <<>>, err |-> r.err, env |-> r.env,
                    out |-> r.out])

\* call_body running the body with a Function table without the function
\* being called
call_body_closed(fn_name, evaluated_args, fd, depth) ==
    Bind(function_body_loop(fn_name, fd[fn_name].body, 1,
                            new_local_env(fd[fn_name].params, evaluated_args.val,
                                          evaluated_args.env),
                            [n \in DOMAIN fd \ {fn_name} |-> fd[n]],
                            evaluated_args.out, Void, depth - 1),
         LAMBDA b : [b EXCEPT !.env = env_after_call(evaluated_args.env, b.env)])

\* the call proper, once the arguments are evaluated: the body is run in a
\* new local Environment, and the caller's Environment is handed back
call_body(fn_name, evaluated_args, fd, depth) ==
    Bind(function_body_loop(fn_name, fd[fn_name].body, 1,
                            new_local_env(fd[fn_name].params, evaluated_args.val,
                                          evaluated_args.env),
                            fd, evaluated_args.out, Void, depth - 1),
         LAMBDA b : [b EXCEPT !.env = env_after_call(evaluated_args.env, b.env)])

execute_function(fn_name, arg_exprs, caller_env, fd, o, depth) ==
    Bind(call_check(fn_name, Len(arg_exprs), fd), LAMBDA refusal :
        IF refusal # "" THEN RErr(refusal, caller_env, o)
        ELSE
        Bind(eval_all(arg_exprs, <<>>, caller_env, fd, o, depth), LAMBDA evaluated_args :
            IF ~evaluated_args.ok
            THEN RErr(evaluated_args.err, evaluated_args.env, evaluated_args.out)
            ELSE IF depth = 0
            THEN RErr("stack overflow", evaluated_args.env, evaluated_args.out)
            ELSE call_body(fn_name, evaluated_args, fd, depth)))
\* function_body_loop forgetting the last value at a print statement
function_body_loop_print_resets(fn_name, body, i, local_env, fd, o, last_value, depth) ==
    IF i > Len(body) THEN ROk(last_value, local_env, o)
    ELSE Bind(run_statement_in_function(body[i], local_env, fd, o, depth), LAMBDA r :
             IF ~r.ok
             THEN RErr("Function '" \o fn_name \o "' Execution Error (Stmt "
                       \o IntToStr(i) \o "): " \o r.err, r.env, r.out)
             ELSE IF stops_on_return(r.flow) THEN ROk(r.flow.val, r.env, r.out)
             ELSE IF r.flow.c = "Print"
             THEN function_body_loop(fn_name, body, i + 1, r.env, fd,
                                     Append(r.out, r.flow.text), Void, depth)
             ELSE function_body_loop(fn_name, body, i + 1, r.env, fd, r.out,
                                     r.flow.val, depth))

\* the for loop of execute_function from statement i (1-based) on; the
\* result is the call's, with the local Environment in env
function_body_loop(fn_name, body, i, local_env, fd, o, last_value, depth) ==
    IF i > Len(body) THEN ROk(last_value, local_env, o)
    ELSE Bind(run_statement_in_function(body[i], local_env, fd, o, depth), LAMBDA r :
             IF ~r.ok
             THEN RErr("Function '" \o fn_name \o "' Execution Error (Stmt "
                       \o IntToStr(i) \o "): " \o r.err, r.env, r.out)
             ELSE IF stops_on_return(r.flow) THEN ROk(r.flow.val, r.env, r.out)
             ELSE IF r.flow.c = "Print"
             THEN function_body_loop(fn_name, body, i + 1, r.env, fd,
                                     Append(r.out, r.flow.text), last_value, depth)
             ELSE function_body_loop(fn_name, body, i + 1, r.env, fd, r.out,
                                     r.flow.val, depth))

\* the Print arm of run_statement_in_function, once the arguments are evaluated
print_in_function(output, results) ==
    IF output.ok THEN FOk(PrintFlow(output.text), results.env, results.out)
    ELSE FErr(output.err, results.env, results.out)

run_statement_in_function(stmt, e, fd, o, depth) ==
    CASE stmt.s = "Expr" ->
            Bind(eval(stmt.expr, e, fd, o, depth), LAMBDA r :
                 IF r.ok THEN FOk(Continue(r.val), r.env, r.out)
                 ELSE FErr(r.err, r.env, r.out))
      [] stmt.s = "Print" ->
            Bind(eval_all(stmt.args, <<>>, e, fd, o, depth), LAMBDA results :
                 IF ~results.ok THEN FErr(results.err, results.env, results.out)
                 ELSE print_in_function(print_output(stmt.fmt, results.val), results))
      [] stmt.s = "If" ->
            Bind(eval(stmt.cond, e, fd, o, depth), LAMBDA c :
                 IF ~c.ok THEN FErr(c.err, c.env, c.out)
                 ELSE IF c.val.t # "Boolean"
                 THEN FErr("'if' condition must evaluate to a Boolean, found "
                           \o DebugVal(c.val), c.env, c.out)
                 ELSE IF c.val.b \/ stmt.else # NoneOpt
                 THEN if_body_loop(IF c.val.b THEN stmt.then ELSE stmt.else[1],
                                   c.env, fd, c.out, Void, depth)
                 ELSE FOk(Continue(Void), c.env, c.out))
      [] stmt.s = "Def" ->
            FErr("Function definition '" \o stmt.name
                 \o "' is only allowed at the top level", e, o)
      [] stmt.s = "Return" ->
            IF stmt.expr = NoneOpt THEN FOk(Return(Void), e, o)
            ELSE Bind(eval(stmt.expr[1], e, fd, o, depth), LAMBDA r :
                      IF r.ok THEN FOk(Return(r.val), r.env, r.out)
                      ELSE FErr(r.err, r.env, r.out))
\* if_body_loop answering Continue(Void) at the end of the body
if_body_loop_void(stmts, e, fd, o, last_value, depth) ==
    IF stmts = <<>> THEN FOk(Continue(Void), e, o)
    ELSE Bind(run_statement_in_function(Head(stmts), e, fd, o, depth), LAMBDA r :
             IF ~r.ok THEN r
             ELSE IF stops_on_return(r.flow) THEN FOk(Return(r.flow.val), r.env, r.out)
             ELSE IF r.flow.c = "Print"
             THEN if_body_loop(Tail(stmts), r.env, fd, Append(r.out, r.flow.text),
                               last_value, depth)
             ELSE if_body_loop(Tail(stmts), r.env, fd, r.out, r.flow.val, depth))

\* the for loop over the chosen body of an if statement in function context
if_body_loop(stmts, e, fd, o, last_value, depth) ==
    IF stmts = <<>> THEN FOk(Continue(last_value), e, o)
    ELSE Bind(run_statement_in_function(Head(stmts), e, fd, o, depth), LAMBDA r :
             IF ~r.ok THEN r
             ELSE IF stops_on_return(r.flow) THEN FOk(Return(r.flow.val), r.env, r.out)
             ELSE IF r.flow.c = "Print"
             THEN if_body_loop(Tail(stmts), r.env, fd, Append(r.out, r.flow.text),
                               last_value, depth)
             ELSE if_body_loop(Tail(stmts), r.env, fd, r.out, r.flow.val, depth))

\* the result of a top-level statement: output is the Ok(String) of
\* run_statement, fd the Function table as the statement left it
SOk(output, e, fd, o) ==
    [ok |-> TRUE, output |-> output, err |-> "", env |-> e, fd |-> fd, out |-> o]
SErr(msg, e, fd, o) ==
    [ok |-> FALSE, output |-> "", err |-> msg, env |-> e, fd |-> fd, out |-> o]

\* top_level_return evaluating the expression of the statement and
\* discarding its value
top_level_return_eval(stmt, e, fd, o) ==
    IF stmt.expr = NoneOpt THEN SOk("", e, fd, o)
    ELSE Bind(eval(stmt.expr[1], e, fd, o, MaxDepth), LAMBDA r :
              IF r.ok THEN SOk("", r.env, fd, r.out) ELSE SErr(r.err, r.env, fd, r.out))

\* what run_statement does with a top-level return statement
top_level_return(stmt, e, fd, o) == SOk("", e, fd, o)

\* define_function keeping the entry a name already has
define_function_keep(fd, stmt) ==
    IF stmt.name \in DOMAIN fd THEN fd
    ELSE insert(fd, stmt.name, [params |-> stmt.params, body |-> stmt.body])

\* the Function table after a top-level fn statement
define_function(fd, stmt) ==
    insert(fd, stmt.name, [params |-> stmt.params, body |-> stmt.body])

\* the Print arm of run_statement, once the arguments are evaluated: the arm
\* writes the line to stdout and hands the text back in Ok(String)
print_at_top_level(output, results, fd) ==
    IF output.ok
    THEN SOk(output.text, results.env, fd, Append(results.out, output.text))
    ELSE SErr(output.err, results.env, fd, results.out)

RECURSIVE run_statement(_, _, _, _)
RECURSIVE top_if_body_loop(_, _, _, _)

run_statement(stmt, e, fd, o) ==
    CASE stmt.s = "Expr" ->
            Bind(eval(stmt.expr, e, fd, o, MaxDepth), LAMBDA r :
                 IF ~r.ok THEN SErr(r.err, r.env, fd, r.out)
                 ELSE SOk(IF r.val = Void THEN "" ELSE Display(r.val), r.env, fd, r.out))
      [] stmt.s = "Print" ->
            Bind(eval_all(stmt.args, <<>>, e, fd, o, MaxDepth), LAMBDA results :
                 IF ~results.ok THEN SErr(results.err, results.env, fd, results.out)
                 ELSE print_at_top_level(print_output(stmt.fmt, results.val), results, fd))
      [] stmt.s = "Def" -> SOk("", e, define_function(fd, stmt), o)
      [] stmt.s = "Return" -> top_level_return(stmt, e, fd, o)
      [] stmt.s = "If" ->
            Bind(eval(stmt.cond, e, fd, o, MaxDepth), LAMBDA c :
                 IF ~c.ok THEN SErr(c.err, c.env, fd, c.out)
                 ELSE IF c.val.t # "Boolean"
                 THEN SErr("'if' condition must evaluate to a Boolean, found "
                           \o DebugVal(c.val), c.env, fd, c.out)
                 ELSE IF c.val.b \/ stmt.else # NoneOpt
                 THEN top_if_body_loop(IF c.val.b THEN stmt.then ELSE stmt.else[1],
                                       c.env, fd, c.out)
                 ELSE SOk("", c.env, fd, c.out))
\* top_if_body_loop leaving the block at a return statement
top_if_body_loop_until_return(stmts, e, fd, o) ==
    IF stmts = <<>> \/ Head(stmts).s = "Return" THEN SOk("", e, fd, o)
    ELSE Bind(run_statement(Head(stmts), e, fd, o), LAMBDA r :
              IF r.ok THEN top_if_body_loop(Tail(stmts), r.env, r.fd, r.out) ELSE r)

RECURSIVE top_if_body_loop_scoped(_, _, _, _)

\* top_if_body_loop running the body on an Environment of its own, which is
\* dropped at the end of the body
top_if_body_loop_scoped(stmts, e, fd, o) ==
    IF stmts = <<>> THEN SOk("", e, fd, o)
    ELSE Bind(run_statement(Head(stmts), e, fd, o), LAMBDA r :
              IF r.ok
              THEN Bind(top_if_body_loop_scoped(Tail(stmts), r.env, r.fd, r.out),
                        LAMBDA q : [q EXCEPT !.env = e])
              ELSE r)

\* the for loop over the chosen body of a top-level if statement
top_if_body_loop(stmts, e, fd, o) ==
    IF stmts = <<>> THEN SOk("", e, fd, o)
    ELSE Bind(run_statement(Head(stmts), e, fd, o), LAMBDA r :
              IF r.ok THEN top_if_body_loop(Tail(stmts), r.env, r.fd, r.out) ELSE r)

(***************************************************************************)
(* The driver: main.  The sources it is run on are the programs made of at *)
(* most MaxStmts of the statements of Fragments, one per line.             *)
(***************************************************************************)
MaxStmts == 3

Fragments ==
    { "fn f(a) [ y = a * 2 print(\"f {}\", a) if (a > 1) [ if (a > 2) [ return y print(\"dead\") ] y = 0 ] y + 1 ]",
      "fn f(a, b) [ print(\"f {} {}\", a, b) return a - b ]",
      "fn g(a) [ if (a > 1) [ x = f(a) ] return x ]",
      "x = 2",
      "z = f(x = 3)",
      "z = 1 == 2 and f(x = 7) == 1",
      "return y = g(2)",
      "x ^= 2",
      "f(x = 1, x + 1)",
      "y = g(1)",
      "if (x == 2.0) [ x = f(1) ] else [ return 1 x = \"s\" ]",
      "print(\"{} {}\", x, z)",
      "if (x) [ fn k() [ ] ]" }

\* the sources of k statements
RECURSIVE SourcesOf(_)
SourcesOf(k) ==
    IF k = 0 THEN {""}
    ELSE {s \o "\n" \o f : s \in SourcesOf(k - 1), f \in Fragments}

Sources == UNION {SourcesOf(k) : k \in 1..MaxStmts}

Pre == [env |-> env, func_defs |-> func_defs, out |-> out]

\* phase_after without the break
phase_after_continue(ok) == "run"

\* the for loop of main after a statement: it goes on, or breaks on Err
phase_after(ok) == IF ok THEN "run" ELSE "runtime_error"

Init ==
    /\ input \in Sources
    /\ phase = "start"
    /\ statements = <<>>
    /\ idx = 0
    /\ env = EmptyEnv
    /\ func_defs = EmptyDefs
    /\ out = <<>>
    /\ err = ""
    /\ hist = [env |-> EmptyEnv, func_defs |-> EmptyDefs, out |-> <<>>]
    /\ lexer = Lexer_new

\* parser.parse() returned Ok(statements)
ParseOk ==
    /\ phase = "start"
    /\ \E r \in {parse(input)} :
          /\ r.ok
          /\ statements' = r.v
    /\ phase' = "run"
    /\ UNCHANGED <<input, idx, env, func_defs, out, err, hist, lexer>>

\* parse_loop handing back the statements parsed before an error
RECURSIVE parse_loop_keeping(_, _, _)
parse_loop_keeping(inp, p, stmts) ==
    IF p.cur = Eof THEN stmts
    ELSE Bind(IF p.cur = Tok("Keyword", "fn") THEN parse_fn_statement(inp, p)
              ELSE parse_statement(inp, p, TRUE),
              LAMBDA r :
                  IF r.ok THEN parse_loop_keeping(inp, r.p, Append(stmts, r.v)) ELSE stmts)

\* ParseErr going on to run the statements parsed before the error
ParseErr_running_parsed ==
    /\ phase = "start"
    /\ \E r \in {parse(input)} :
          /\ ~r.ok
          /\ err' = "Parsing Error: " \o r.err
    /\ statements' = parse_loop_keeping(input, Parser_new(input), <<>>)
    /\ phase' = "run"
    /\ UNCHANGED <<input, idx, env, func_defs, out, hist, lexer>>

\* parser.parse() returned Err(e)
ParseErr ==
    /\ phase = "start"
    /\ \E r \in {parse(input)} :
          /\ ~r.ok
          /\ err' = "Parsing Error: " \o r.err
    /\ phase' = "parse_error"
    /\ UNCHANGED <<input, statements, idx, env, func_defs, out, hist, lexer>>

\* one turn of the for loop of main: run_statement returned Ok
RunStatementOk ==
    /\ phase = "run"
    /\ idx < Len(statements)
    /\ \E r \in {run_statement(statements[idx + 1], env, func_defs, out)} :
           /\ r.ok
           /\ env' = r.env
           /\ func_defs' = r.fd
           /\ out' = r.out
           /\ phase' = phase_after(r.ok)
    /\ idx' = idx + 1
    /\ hist' = Pre
    /\ UNCHANGED <<input, statements, err, lexer>>

\* one turn of the for loop of main: run_statement returned Err(e), break
RunStatementErr ==
    /\ phase = "run"
    /\ idx < Len(statements)
    /\ \E r \in {run_statement(statements[idx + 1], env, func_defs, out)} :
           /\ ~r.ok
           /\ env' = r.env
           /\ func_defs' = r.fd
           /\ out' = r.out
           /\ err' = "Runtime Error (Statement " \o IntToStr(idx + 1) \o "): " \o r.err
           /\ phase' = phase_after(r.ok)
    /\ idx' = idx + 1
    /\ hist' = Pre
    /\ UNCHANGED <<input, statements, lexer>>

\* the for loop of main ran out of statements
Finish ==
    /\ phase = "run"
    /\ idx = Len(statements)
    /\ phase' = "done"
    /\ UNCHANGED <<input, statements, idx, env, func_defs, out, err, hist, lexer>>

Next == ParseOk \/ ParseErr \/ RunStatementOk \/ RunStatementErr \/ Finish

Spec == Init /\ [][Next]_vars

(***************************************************************************)
(* The lexer on its own: a Lexer made over any text of at most MaxLen      *)
(* characters of LexChars, and next_token called on it again and again, at *)
(* most MaxEofCalls times after the end of the input is reached.           *)
(***************************************************************************)
MaxLen == 4

MaxEofCalls == 2

\* a digit, the point, a letter, the two characters of string literals that
\* matter, the comment character, a whitespace character and an operator
LexChars == {"1", ".", "a", "\"", "\\", ";", "\n", "="}

RECURSIVE LexInputsOf(_)
LexInputsOf(k) ==
    IF k = 0 THEN {""}
    ELSE {s \o c : s \in LexInputsOf(k - 1), c \in LexChars}

LexInputs == UNION {LexInputsOf(k) : k \in 0..MaxLen}

LexInit ==
    /\ input \in LexInputs
    /\ phase = "lex"
    /\ statements = <<>>
    /\ idx = 0
    /\ env = EmptyEnv
    /\ func_defs = EmptyDefs
    /\ out = <<>>
    /\ err = ""
    /\ hist = [env |-> EmptyEnv, func_defs |-> EmptyDefs, out |-> <<>>]
    /\ lexer = Lexer_new

\* one call of Lexer::next_token
Lexer_next_token ==
    /\ phase = "lex"
    /\ lexer.eofs < MaxEofCalls
    /\ \E r \in {next_token(input, lexer.pos)} :
           lexer' = [pos |-> r.pos, current |-> r.tok,
                     eofs |-> IF r.tok = Eof THEN lexer.eofs + 1 ELSE lexer.eofs]
    /\ UNCHANGED <<input, phase, statements, idx, env, func_defs, out, err, hist>>

LexNext == Lexer_next_token

\* the caller goes on calling next_token
LexSpec == LexInit /\ [][LexNext]_vars /\ WF_vars(LexNext)

(***************************************************************************)
(* The print statement on its own: programs made of one print with a       *)
(* format string of PrintFormats and at most MaxArgs arguments of          *)
(* PrintArgs, at top level or as the body of a function that is then       *)
(* called, and prints without a format string.                             *)
(***************************************************************************)
MaxArgs == 3

PrintFormats == {"", "{}", "a{}b{}", "{}{}{}", "{{}}", "{}}", "}{", "{ } {}"}

\* the source texts of the arguments; q is not initialized
PrintArgs == {"1", "'{}'", "''", "'{'", "1 == 1", "q"}

RECURSIVE PrintArgLists(_)
PrintArgLists(k) ==
    IF k = 0 THEN {""}
    ELSE {l \o ", " \o a : l \in PrintArgLists(k - 1), a \in PrintArgs}

PrintStatements ==
    {"print(\"" \o f \o "\"" \o l \o ")" :
         f \in PrintFormats, l \in UNION {PrintArgLists(k) : k \in 0..MaxArgs}}
    \cup {"print(1)", "print(1, 2)", "print('a' + 'b')", "print()"}

\* what follows the string literal "a" that is the first token after print(
\* and is accepted there: nothing, or arguments after commas
AcceptedAfterLiteral == {"", ", 1", ", 1, \"b\""}

\* and what is not: the continuation of an expression, another expression,
\* a comma without an argument, an argument without a comma before it
RefusedAfterLiteral ==
    {" + \"b\"", " \"b\"", " 1", " == \"a\"", " x", " (1)", " = 1", ",", ", 1 2"}

LiteralFirst(t) == "print(\"a\"" \o t \o ")"

\* the texts of a String printed from a variable
VerbatimTexts == {"", "a{}", "{}{}", "a  b", "{"}

PrintVariable(s) == "x = \"" \o s \o "\"\nprint(x)"

\* prints whose first token is a string literal followed by something else
\* than an argument list, and prints of a String that is not a literal
LiteralFirstSources ==
    {LiteralFirst(t) : t \in AcceptedAfterLiteral \cup RefusedAfterLiteral}
    \cup {PrintVariable(s) : s \in VerbatimTexts}
    \cup {"print((\"a\") + \"b\")", "x = \"a\"\nprint(x + \"b\")"}

PrintSources ==
    PrintStatements \cup {"fn p() [ " \o s \o " ]\np()" : s \in PrintStatements}
    \cup LiteralFirstSources

PrintInit ==
    /\ input \in PrintSources
    /\ phase = "start"
    /\ statements = <<>>
    /\ idx = 0
    /\ env = EmptyEnv
    /\ func_defs = EmptyDefs
    /\ out = <<>>
    /\ err = ""
    /\ hist = [env |-> EmptyEnv, func_defs |-> EmptyDefs, out |-> <<>>]
    /\ lexer = Lexer_new

PrintSpec == PrintInit /\ [][Next]_vars

(***************************************************************************)
(* The binary operators on their own: programs of the one statement        *)
(* r = L op R , for the Integer division and remainder, the Integer power  *)
(* and the ordering operators, over the operand texts below.               *)
(***************************************************************************)
DivOperands ==
    {"0", "1", "(-1)", "2", "(-2)", "7", "(-7)", "32768", "(-32769)", "4294967296",
     "100000000000000000000", "(-99999999999999999999)"}

PowBases == {"0", "1", "(-1)", "2", "(-2)", "(-3)", "7", "10000000000"}

PowExponents == {"0", "(-0)", "1", "2", "3", "10", "(-1)", "(-2)", "4294967296"}

\* u32::MAX as an exponent, for the bases whose power stays small
PowAtU32Max == {"0 ^ 4294967295", "1 ^ 4294967295", "(-1) ^ 4294967295"}

OrderOperands ==
    {"1", "2", "(-1)", "100000000000000000000", "2.5", "2.0", "0.0", "(-0.0)",
     "'a'", "'b'", "'ab'", "''", "(1 == 1)", "(1 == 2)"}

OrderOperators == {"<", ">", "<=", ">="}

\* an operator without its right operand
OperandMissing == {"7 /", "7 %", "2 ^", "1 <"}

UnaryOperators == {"+", "-"}

UnaryOperands ==
    {"0", "7", "(-7)", "100000000000000000000", "2.5", "0.0", "(-0.0)", "'a'", "''",
     "(1 == 1)", "(1 == 2)"}

OperatorSources ==
    {"r = " \o x : x \in
        {a \o " " \o op \o " " \o b : a \in DivOperands, op \in {"/", "%"}, b \in DivOperands}
        \cup {b \o " ^ " \o e : b \in PowBases, e \in PowExponents}
        \cup PowAtU32Max
        \cup {a \o " " \o op \o " " \o b : a \in OrderOperands, op \in OrderOperators,
                                          b \in OrderOperands}
        \cup {op \o " " \o a : op \in UnaryOperators, a \in UnaryOperands}
        \cup OperandMissing}

OperatorInit ==
    /\ input \in OperatorSources
    /\ phase = "start"
    /\ statements = <<>>
    /\ idx = 0
    /\ env = EmptyEnv
    /\ func_defs = EmptyDefs
    /\ out = <<>>
    /\ err = ""
    /\ hist = [env |-> EmptyEnv, func_defs |-> EmptyDefs, out |-> <<>>]
    /\ lexer = Lexer_new

OperatorSpec == OperatorInit /\ [][Next]_vars

(***************************************************************************)
(* String literals at the end of the source: a statement head, a string    *)
(* literal of one of StringBodies opened by either delimiter, and then     *)
(* either the end of the input or the delimiter again and a tail.          *)
(***************************************************************************)
StringHeads ==
    {"x = ", "x = 'a' + ", "x = 1 < ", "print(", "x = 1\nprint(\"{}\", ",
     "if (1 == 1) [ x = ", "fn f() [ return "}

StringDelimiters == {"\"", "'"}

\* a\ ends in the escape character: the delimiter that follows it is escaped
StringBodies == {"", "abc", "a b", "a\\", "a\\n", "a ] )", "; a"}

StringTails == {"", ")", " ]", "\nx"}

StringSources ==
    {h \o d \o b : h \in StringHeads, d \in StringDelimiters, b \in StringBodies}
    \cup {h \o d \o b \o d \o t :
              h \in StringHeads, d \in StringDelimiters, b \in StringBodies, t \in StringTails}

StringInit ==
    /\ input \in StringSources
    /\ phase = "start"
    /\ statements = <<>>
    /\ idx = 0
    /\ env = EmptyEnv
    /\ func_defs = EmptyDefs
    /\ out = <<>>
    /\ err = ""
    /\ hist = [env |-> EmptyEnv, func_defs |-> EmptyDefs, out |-> <<>>]
    /\ lexer = Lexer_new

StringSpec == StringInit /\ [][Next]_vars

(***************************************************************************)
(* Expressions of binary operators on their own: programs of the one       *)
(* expression statement  a op b op c op d  with at most MaxOps operators   *)
(* of BinaryOperators, the operands and operators separated by one space,  *)
(* and a few assignments of such expressions over numbers.                 *)
(***************************************************************************)
MaxOps == 3

BinaryOperators ==
    {"^", "*", "/", "%", "+", "-", "<", "==", "and", "or", "=", "+=", "^="}

ExpressionOperands == <<"a", "b", "c", "d", "e">>

\* the expressions of k operators
RECURSIVE ExpressionTexts(_)
ExpressionTexts(k) ==
    IF k = 0 THEN {ExpressionOperands[1]}
    ELSE {t \o " " \o op \o " " \o ExpressionOperands[k + 1] :
              t \in ExpressionTexts(k - 1), op \in BinaryOperators}

ExpressionSources ==
    UNION {ExpressionTexts(k) : k \in 1..MaxOps}
    \cup {"r = 2 ^ 3 ^ 2", "r = 7 - 2 - 1", "r = 2 + 3 * 4", "a = b = 7"}

ExpressionInit ==
    /\ input \in ExpressionSources
    /\ phase = "start"
    /\ statements = <<>>
    /\ idx = 0
    /\ env = EmptyEnv
    /\ func_defs = EmptyDefs
    /\ out = <<>>
    /\ err = ""
    /\ hist = [env |-> EmptyEnv, func_defs |-> EmptyDefs, out |-> <<>>]
    /\ lexer = Lexer_new

ExpressionSpec == ExpressionInit /\ [][Next]_vars

(***************************************************************************)
(* if statements on their own: a then-body and an else-part of assignments *)
(* to x and y, taken or not with c = 1 or 2, with x bound before the if or *)
(* not, at top level (followed by  r = x) and in a function (followed by   *)
(* return x).                                                              *)
(***************************************************************************)
ThenBodies ==
    {"", "x = 5", "x = 5 y = x + 1", "if (1 == 1) [ x = 5 ]", "return 7",
     "x = 5 print(\"{}\", x)"}

\* the last one lacks the [ of the else-body
ElseParts == {"", " else [ ]", " else [ x = 6 ]", " else x = 6"}

BeforeIf == {"", "x = 1 "}

IfStatements ==
    {b \o "if (c == 1) [ " \o t \o " ]" \o e :
         b \in BeforeIf, t \in ThenBodies, e \in ElseParts}

ScopeSources ==
    {"c = " \o k \o " " \o s \o " r = x" : k \in {"1", "2"}, s \in IfStatements}
    \cup {"fn f(c) [ " \o s \o " return x ] r = f(" \o k \o ") x" :
              k \in {"1", "2"}, s \in IfStatements}

ScopeInit ==
    /\ input \in ScopeSources
    /\ phase = "start"
    /\ statements = <<>>
    /\ idx = 0
    /\ env = EmptyEnv
    /\ func_defs = EmptyDefs
    /\ out = <<>>
    /\ err = ""
    /\ hist = [env |-> EmptyEnv, func_defs |-> EmptyDefs, out |-> <<>>]
    /\ lexer = Lexer_new

ScopeSpec == ScopeInit /\ [][Next]_vars

(***************************************************************************)
(* return statements on their own: the keyword, a separator of white space *)
(* and a continuation that starts an expression or does not, as the last   *)
(* statement of a function called with x = 3 and as the last statement of  *)
(* a program.                                                              *)
(***************************************************************************)
ReturnSeparators == {" ", "\n", " \n\n  "}

\* continuations whose first token starts an expression; z is not initialized
ExpressionStarts == {"7", "'s'", "x", "(7)", "+7", "-7", "x = 5", "7 + x", "z"}

\* continuations whose first token is ] or the end of input (the empty one),
\* a keyword, or an operator that starts no expression
OtherStarts ==
    {"", "if (x == 3) [ return 8 ]", "print(9)", "return 8", "* 7", "== 7"}

ReturnInFunction(sep, n) == "fn f(x) [ y = 1 return" \o sep \o n \o " ]\nr = f(3)"
ReturnAtTopLevel(sep, n) == "x = 3\nreturn" \o sep \o n

ReturnSources ==
    {ReturnInFunction(sep, n) : sep \in ReturnSeparators,
                                n \in ExpressionStarts \cup OtherStarts}
    \cup {ReturnAtTopLevel(sep, n) : sep \in ReturnSeparators,
                                     n \in ExpressionStarts \cup OtherStarts}

ReturnInit ==
    /\ input \in ReturnSources
    /\ phase = "start"
    /\ statements = <<>>
    /\ idx = 0
    /\ env = EmptyEnv
    /\ func_defs = EmptyDefs
    /\ out = <<>>
    /\ err = ""
    /\ hist = [env |-> EmptyEnv, func_defs |-> EmptyDefs, out |-> <<>>]
    /\ lexer = Lexer_new

ReturnSpec == ReturnInit /\ [][Next]_vars

(***************************************************************************)
(* Properties.  hist is the state before the top-level statement that was  *)
(* executed last, Last.                                                    *)
(***************************************************************************)
LastRun == idx
Last == statements[LastRun]

\* the first statement a source text is parsed to
StmtOf(src) == parse(src).v[1]

\* the expression a source text is parsed to
ExprOf(src) == expr_bp(src, Parser_new(src), 0).v

(***************************************************************************)
(* C1  short-circuit                                                       *)
(***************************************************************************)
LogicLefts ==
    {ExprOf(src) : src \in {"1 == 2", "1 == 1", "x == 2", "z", "f(1) == 3", "q", "1"}}

LogicRights ==
    {ExprOf(src) : src \in {"x = 7", "f(x = 7) == 1", "g(2)", "nosuch()", "y", "1 == 1",
                            "1 + 'a'"}}

\* C1: in every Environment and Function table the program reaches, for every
\* L and X: when L evaluates to Boolean(false), `L and X` yields
\* Boolean(false), and when L evaluates to Boolean(true), `L or X` yields
\* Boolean(true), in the Environment and with the output that the evaluation
\* of L alone leaves: no assignment, call, output or error of X takes place.
ShortCircuit ==
    \A L \in LogicLefts, X \in LogicRights :
        \E l \in {eval(L, env, func_defs, out, MaxDepth)} :
            /\ (l.ok /\ l.val = VBool(FALSE)) =>
                   eval(Logic(L, "and", X), env, func_defs, out, MaxDepth)
                       = ROk(VBool(FALSE), l.env, l.out)
            /\ (l.ok /\ l.val = VBool(TRUE)) =>
                   eval(Logic(L, "or", X), env, func_defs, out, MaxDepth)
                       = ROk(VBool(TRUE), l.env, l.out)

\* the program has executed  z = L and X  with L false and an X whose
\* evaluation would have assigned a variable and printed: z is false and
\* nothing else has changed
ShortCircuitWitness ==
    /\ LastRun > 0 /\ phase = "run"
    /\ Last.s = "Expr" /\ Last.expr.e = "Infix" /\ Last.expr.rhs.e = "Logic"
    /\ \E x \in {eval(Last.expr.rhs.rhs, hist.env, hist.func_defs, hist.out, MaxDepth)} :
          x.ok /\ x.env # hist.env /\ x.out # hist.out
    /\ env = insert(hist.env, "z", VBool(FALSE))
    /\ out = hist.out

(***************************************************************************)
(* C2  what a call leaves of the caller's Environment                      *)
(***************************************************************************)
CallPool ==
    {ExprOf(src) : src \in {"f(1)", "f(3)", "f(x = 3)", "g(2)", "g(x = 2)", "f(x = 1, x + 1)",
                            "f(y = 2, 1)", "f(q)", "g(1)", "nosuch(x = 1)"}}

AssignTargets == {"x", "y", "r"}

\* C2 as claimed: after a successful call the caller's Environment holds
\* exactly the bindings it held before the call, except for the variable the
\* call's value is assigned to.
CallLeavesCallerEnv ==
    \A c \in CallPool :
        /\ \E r \in {eval(c, env, func_defs, out, MaxDepth)} : r.ok => r.env = env
        /\ \A v \in AssignTargets :
               \E r \in {eval(Infix(Var(v), "=", c), env, func_defs, out, MaxDepth)} :
                   r.ok => r.env = insert(env, v, r.val)

\* C2 as amended: after a successful call the caller's Environment holds
\* exactly the bindings that the evaluation of the argument expressions left
\* in it, except for the variable the call's value is assigned to; the body
\* of the function changes no binding of the caller.
CallLeavesArgumentEnv ==
    \A c \in CallPool :
        \E args \in {eval_all(c.args, <<>>, env, func_defs, out, MaxDepth)} :
            /\ \E r \in {eval(c, env, func_defs, out, MaxDepth)} :
                   r.ok => args.ok /\ r.env = args.env
            /\ \A v \in AssignTargets :
                   \E r \in {eval(Infix(Var(v), "=", c), env, func_defs, out, MaxDepth)} :
                       r.ok => args.ok /\ r.env = insert(args.env, v, r.val)

\* the program has executed  z = f(x = 3)  with the one-parameter f, whose
\* body assigns y: the caller holds the x of the argument and z, and no y
CallLeavesArgumentEnvWitness ==
    /\ LastRun > 0 /\ phase = "run"
    /\ Last = StExpr(ExprOf("z = f(x = 3)"))
    /\ "y" \notin DOMAIN env
    /\ "x" \notin DOMAIN hist.env
    /\ env = insert(insert(hist.env, "x", VInt(3)), "z", VInt(6))

(***************************************************************************)
(* C3  the Return carrier                                                  *)
(***************************************************************************)
\* the statement lists a body loop is run on: the non-empty suffixes of
\* stmts and of the bodies of its if statements, at every depth
RECURSIVE Blocks(_)
Blocks(stmts) ==
    {SubSeq(stmts, i, Len(stmts)) : i \in 1..Len(stmts)}
    \cup UNION {Blocks(stmts[i].then) \cup
                (IF stmts[i].else = NoneOpt THEN {} ELSE Blocks(stmts[i].else[1]))
                : i \in {j \in 1..Len(stmts) : stmts[j].s = "If"}}

FunctionBlocks == UNION {Blocks(func_defs[n].body) : n \in DOMAIN func_defs}

LocalEnvs == {bind_params(EmptyEnv, <<"a", "b">>, <<VInt(k), VInt(1)>>) : k \in 0..3}

\* C3: in function context, when the first statement of a statement list (a
\* return, or an if statement in whose bodies a return executes) yields
\* Return(v), the loop over an if body yields that same Return(v) and the
\* loop over a function body yields v, both in the Environment and with the
\* output the statement left: no later statement of the list executes.
ReturnPropagates ==
    \A stmts \in FunctionBlocks, local_env \in LocalEnvs :
        \E r \in {run_statement_in_function(Head(stmts), local_env, func_defs, out,
                                            MaxDepth)} :
            (r.ok /\ r.flow.c = "Return") =>
                /\ if_body_loop(stmts, local_env, func_defs, out, Void, MaxDepth)
                       = FOk(Return(r.flow.val), r.env, r.out)
                /\ function_body_loop("f", stmts, 1, local_env, func_defs, out, Void,
                                      MaxDepth)
                       = ROk(r.flow.val, r.env, r.out)

\* the program has executed  z = f(x = 3)  with the one-parameter f, whose
\* return lies two if statements deep: the call printed its first line only
\* and z is the returned y
ReturnPropagatesWitness ==
    /\ LastRun > 0 /\ phase = "run"
    /\ Last = StExpr(ExprOf("z = f(x = 3)"))
    /\ out = Append(hist.out, "f 3")
    /\ env["z"] = VInt(6)

(***************************************************************************)
(* C4  compound assignment                                                 *)
(***************************************************************************)
CompoundOps == {"+", "-", "*", "/", "%", "^"}

\* side-effect-free right-hand sides
CompoundRights == {"2", "0", "-1", "1.5", "y", "'s'", "z + 1 * 2"}

\* the statement  x op= e  and the statement  x = x op (e), both parsed
CompoundPairs ==
    {<<StmtOf("x " \o op \o "= " \o e), StmtOf("x = x " \o op \o " (" \o e \o ")")>> :
        op \in CompoundOps, e \in CompoundRights}

\* the Environment of the state, and the same with x bound to each kind of value
XBindings ==
    {env} \cup {insert(env, "x", v) : v \in {VInt(3), VFloat(parse_f64("1.5")), VStr("s")}}

\* C4: for every op of + - * / % ^, every binding of x (x unbound included)
\* and every side-effect-free e, the statement  x op= e  leaves the same
\* Environment and yields the same value, or the same error, as the
\* statement  x = x op (e).
CompoundAssignment ==
    phase \in {"run", "runtime_error", "done"} =>
        \A pair \in CompoundPairs, e \in XBindings :
            run_statement(pair[1], e, func_defs, out) = run_statement(pair[2], e, func_defs, out)

\* the program has executed  x ^= 2  with x bound to 2: x is 4, as after
\* x = x ^ (2)
CompoundAssignmentWitness ==
    /\ LastRun > 0 /\ phase = "run"
    /\ Last = StmtOf("x = x ^ (2)")
    /\ hist.env["x"] = VInt(2)
    /\ env = insert(hist.env, "x", VInt(4))

(***************************************************************************)
(* C5  strict and non-strict equality                                      *)
(***************************************************************************)
\* operands of every variant: the variables of the program, literals, an
\* Integer above 2^53 and the Floats around it
EqualityOperands ==
    {ExprOf(src) : src \in {"x", "y", "z", "2", "2.0", "0", "0.0", "'s'", "1 == 1",
                            "9007199254740992", "9007199254740993",
                            "9007199254740992.0", "9007199254740994.0"}}

\* whether the Integer n and the Float x are the same number
same_number(n, x) ==
    IF is_zero(n) THEN FIsZero(x)
    ELSE /\ FIsFinite(x) /\ ~FIsZero(x)
         /\ x.neg = n.neg
         /\ x.e >= 0
         /\ MagShl(x.m, x.e) = n.mag

\* the values that the operands evaluate to in the state
EqualityValues ==
    {r.val : r \in {q \in {eval(X, env, func_defs, out, MaxDepth) : X \in EqualityOperands} :
                       q.ok}}

\* the Boolean that eval's Expr::Cmp yields for the operand values l and r
EqualityOf(l, op, r) == compare(op, l, r).val.b

\* C5 as stated: a === b implies a == b, and a == b holds without a === b
\* only for an Integer and a Float that are the same number.
EqualityBySameNumber ==
    \A l \in EqualityValues, r \in EqualityValues :
        /\ EqualityOf(l, "===", r) => EqualityOf(l, "==", r)
        /\ (EqualityOf(l, "==", r) /\ ~EqualityOf(l, "===", r)) =>
               \/ l.t = "Integer" /\ r.t = "Float" /\ same_number(l.i, r.f)
               \/ l.t = "Float" /\ r.t = "Integer" /\ same_number(r.i, l.f)

\* C5, amended: a === b implies a == b, and a == b holds without a === b
\* only for an Integer and a Float where the Float equals the f64 that the
\* Integer converts to (the coercion of the arithmetic operators).
EqualityByConversion ==
    \A l \in EqualityValues, r \in EqualityValues :
        /\ EqualityOf(l, "===", r) => EqualityOf(l, "==", r)
        /\ (EqualityOf(l, "==", r) /\ ~EqualityOf(l, "===", r)) =>
               /\ {l.t, r.t} = {"Integer", "Float"}
               /\ FEq(coerce_f64(l), coerce_f64(r))

\* the program has executed  if (x == 2.0) [ x = f(1) ] else ...  with x
\* bound to Integer 2 and the one-parameter f: x == 2.0 held, x === 2.0 did
\* not, the then-body ran, and in the state after it the Integer
\* 9007199254740993 equals the Float 9007199254740992.0 under == alone
EqualityByConversionWitness ==
    /\ LastRun > 0 /\ phase = "run"
    /\ Last = StmtOf("if (x == 2.0) [ x = f(1) ] else [ return 1 x = \"s\" ]")
    /\ "x" \in DOMAIN hist.env
    /\ hist.env["x"] = VInt(2)
    /\ eval(ExprOf("x == 2.0"), hist.env, hist.func_defs, hist.out, MaxDepth).val = VBool(TRUE)
    /\ eval(ExprOf("x === 2.0"), hist.env, hist.func_defs, hist.out, MaxDepth).val = VBool(FALSE)
    /\ out = Append(hist.out, "f 1")
    /\ env["x"] = VInt(3)
    /\ eval(ExprOf("9007199254740993 == 9007199254740992.0"),
            env, func_defs, out, MaxDepth).val = VBool(TRUE)
    /\ eval(ExprOf("9007199254740993 === 9007199254740992.0"),
            env, func_defs, out, MaxDepth).val = VBool(FALSE)

(***************************************************************************)
(* C6  redefinition                                                        *)
(***************************************************************************)
\* what a call of a function with the parameters params and the body body
\* yields: the arity error, or the arguments' error, or the result of the
\* body run on the parameters bound to the arguments
CallWith(c, params, body) ==
    IF Len(params) # Len(c.args)
    THEN RErr("Function '" \o c.name \o "' expects " \o IntToStr(Len(params))
              \o " arguments, but received " \o IntToStr(Len(c.args)), env, out)
    ELSE Bind(eval_all(c.args, <<>>, env, func_defs, out, MaxDepth), LAMBDA args :
             IF ~args.ok THEN RErr(args.err, args.env, args.out)
             ELSE [function_body_loop(c.name, body, 1,
                                      bind_params(EmptyEnv, params, args.val),
                                      func_defs, args.out, Void, MaxDepth - 1)
                   EXCEPT !.env = args.env])

\* C6: after a top-level fn statement the Function table holds, under the
\* name, the parameters and the body of that statement, whatever it held
\* under it before, and its other entries are as before; a call of the name
\* is checked against the new parameters and runs the new body; no other
\* statement changes the Function table.
Redefinition ==
    LastRun > 0 =>
        IF Last.s = "Def"
        THEN /\ DOMAIN func_defs = DOMAIN hist.func_defs \cup {Last.name}
             /\ func_defs[Last.name] = [params |-> Last.params, body |-> Last.body]
             /\ \A n \in DOMAIN hist.func_defs \ {Last.name} :
                    func_defs[n] = hist.func_defs[n]
             /\ \A c \in {d \in CallPool : d.name = Last.name} :
                    eval(c, env, func_defs, out, MaxDepth)
                        = CallWith(c, Last.params, Last.body)
        ELSE func_defs = hist.func_defs

\* the program has defined f with one parameter, then f with two, then
\* executed  f(x = 1, x + 1): the call ran the second body
RedefinitionWitness ==
    /\ LastRun = 3 /\ phase = "run"
    /\ statements[1].s = "Def" /\ statements[2].s = "Def"
    /\ statements[1].name = statements[2].name
    /\ Len(statements[1].params) = 1 /\ Len(statements[2].params) = 2
    /\ Last = StmtOf("f(x = 1, x + 1)")
    /\ out = <<"f 1 2">>

(***************************************************************************)
(* C7  the order of a call                                                 *)
(***************************************************************************)
\* the evaluation of at most two argument expressions, the first before the
\* second, each in the Environment the one before left
LeftToRight(exprs) ==
    IF exprs = <<>>
    THEN [ok |-> TRUE, val |-> <<>>, err |-> "", env |-> env, out |-> out]
    ELSE Bind(eval(exprs[1], env, func_defs, out, MaxDepth), LAMBDA first :
         IF ~first.ok \/ Len(exprs) = 1
         THEN [first EXCEPT !.val = IF first.ok THEN <<first.val>> ELSE <<>>]
         ELSE Bind(eval(exprs[2], first.env, func_defs, first.out, MaxDepth), LAMBDA second :
              [second EXCEPT !.val = IF second.ok THEN <<first.val, second.val>>
                                     ELSE <<>>]))

\* C7: a call of a name that is not in the Function table, or with a number
\* of arguments that is not the number of parameters, is an error that
\* leaves the caller's Environment and the output as they were: no argument
\* is evaluated.  Otherwise the arguments are evaluated from left to right in
\* the caller's Environment; an argument's error is the call's error and no
\* body statement runs; and the body runs on the values of the arguments,
\* after their output.
CallOrder ==
    \A c \in CallPool :
        \E r \in {eval(c, env, func_defs, out, MaxDepth)} :
            IF c.name \notin DOMAIN func_defs
            THEN r = RErr("Function '" \o c.name \o "' is not defined", env, out)
            ELSE IF Len(func_defs[c.name].params) # Len(c.args)
            THEN r = RErr("Function '" \o c.name \o "' expects "
                          \o IntToStr(Len(func_defs[c.name].params))
                          \o " arguments, but received " \o IntToStr(Len(c.args)),
                          env, out)
            ELSE \E args \in {LeftToRight(c.args)} :
                     IF ~args.ok THEN r = RErr(args.err, args.env, args.out)
                     ELSE r = [function_body_loop(
                                   c.name, func_defs[c.name].body, 1,
                                   bind_params(EmptyEnv, func_defs[c.name].params, args.val),
                                   func_defs, args.out, Void, MaxDepth - 1)
                               EXCEPT !.env = args.env]

\* the program has executed  f(x = 1, x + 1)  with the one-parameter f: the
\* call is refused and x, unbound before, is unbound still
CallOrderWitness ==
    /\ LastRun > 0 /\ phase = "runtime_error"
    /\ Last = StmtOf("f(x = 1, x + 1)")
    /\ "f" \in DOMAIN func_defs /\ Len(func_defs["f"].params) = 1
    /\ "x" \notin DOMAIN env
    /\ env = hist.env /\ out = hist.out

(***************************************************************************)
(* C8  the variables a function body sees                                  *)
(***************************************************************************)
ProbeNames == {"x", "y", "z", "w"}

\* for each name, the definition of a function p(a) that assigns the
\* variable name when a > 1 and returns it
ProbeDefs ==
    [name \in ProbeNames |->
        StmtOf("fn p(a) [ if (a > 1) [ " \o name \o " = a ] return " \o name \o " ]")]

\* the Function table with p added
WithProbe(name) == define_function(func_defs, ProbeDefs[name])

ProbeCalls == [a \in {1, 2} |-> ExprOf("p(" \o IntToStr(a) \o ")")]

\* calls whose arguments are literals
LiteralCalls ==
    {ExprOf(src) : src \in {"f(1)", "f(3)", "f(2, 1)", "g(1)", "g(2)", "g(3)"}}

\* C8: what a call yields and prints does not depend on the bindings of its
\* caller; a body that reads a name which is neither a parameter nor
\* assigned earlier in the same call fails on an uninitialized variable,
\* also when the caller binds that name and also when an earlier call of
\* the same function has assigned it.
LocalScope ==
    /\ \A c \in LiteralCalls :
           \E r \in {eval(c, env, func_defs, out, MaxDepth)},
              fresh \in {eval(c, EmptyEnv, func_defs, out, MaxDepth)} :
               /\ r.ok = fresh.ok /\ r.val = fresh.val /\ r.err = fresh.err
               /\ r.out = fresh.out
    /\ \A name \in ProbeNames :
           \E first \in {eval(ProbeCalls[2], env, WithProbe(name), out, MaxDepth)} :
               /\ first = ROk(VInt(2), env, out)
               /\ eval(ProbeCalls[1], first.env, WithProbe(name), first.out, MaxDepth)
                      = RErr("Function 'p' Execution Error (Stmt 2): "
                             \o "Cannot evaluate uninitialized variable: " \o name,
                             env, out)

\* the program has bound x at top level and then executed  y = g(1): the body
\* of g does not see x
LocalScopeWitness ==
    /\ LastRun > 0 /\ phase = "runtime_error"
    /\ Last = StmtOf("y = g(1)")
    /\ "x" \in DOMAIN env
    /\ "g" \in DOMAIN func_defs
    /\ err = "Runtime Error (Statement " \o IntToStr(LastRun) \o "): Function 'g' "
             \o "Execution Error (Stmt 2): Cannot evaluate uninitialized variable: x"

(***************************************************************************)
(* C9  a runtime error halts the script                                    *)
(***************************************************************************)
\* C9: once main has reported an error, no step changes the Environment, the
\* Function table, the output or the number of statements executed: no
\* later top-level statement is executed.
HaltOnError == [][err # "" => UNCHANGED <<env, func_defs, out, idx, err>>]_vars

\* the second statement of a three-statement program has failed; the third,
\* which would have changed the Environment and printed, is not executed
HaltOnErrorWitness ==
    /\ phase = "runtime_error"
    /\ idx = 2 /\ Len(statements) = 3
    /\ err # ""
    /\ \E r \in {run_statement(statements[3], env, func_defs, out)} :
           r.ok /\ r.env # env /\ r.out # out

(***************************************************************************)
(* C10  return at top level                                                *)
(***************************************************************************)
ReturnPool ==
    {ExprOf(src) : src \in {"y = g(2)", "x = 1", "f(1)", "f(x = 3)", "q", "1 / 0", "2"}}

\* C10 as claimed: a top-level  return e  evaluates e: the state after it is
\* the state the evaluation of e leaves, an error of e included.
TopLevelReturnEvaluates ==
    (LastRun > 0 /\ Last.s = "Return" /\ Last.expr # NoneOpt) =>
        \E r \in {eval(Last.expr[1], hist.env, hist.func_defs, hist.out, MaxDepth)} :
            /\ env = r.env
            /\ out = r.out
            /\ (phase = "runtime_error") = ~r.ok

\* C10 as amended: a top-level  return e  is a no-op: e is not evaluated,
\* so no assignment, output or error of e takes place, and the statement
\* changes nothing.
TopLevelReturnNoOp ==
    /\ \A e \in ReturnPool :
           run_statement(StReturn(Some(e)), env, func_defs, out)
               = SOk("", env, func_defs, out)
    /\ (LastRun > 0 /\ Last.s = "Return") =>
           /\ env = hist.env /\ func_defs = hist.func_defs /\ out = hist.out
           /\ phase # "runtime_error"

\* the program has executed  return y = g(2)  where the evaluation of
\* y = g(2)  would have bound y and printed: nothing has changed
TopLevelReturnNoOpWitness ==
    /\ LastRun > 0 /\ phase = "run"
    /\ Last = StmtOf("return y = g(2)")
    /\ \E r \in {eval(Last.expr[1], hist.env, hist.func_defs, hist.out, MaxDepth)} :
           r.ok /\ r.env # hist.env /\ r.out # hist.out
    /\ env = hist.env /\ out = hist.out

(***************************************************************************)
(* C11  return in top-level context has no control-flow effect             *)
(***************************************************************************)
\* a block without its return statements, those of nested if bodies included
RECURSIVE without_returns(_)
without_returns(stmts) ==
    IF stmts = <<>> THEN <<>>
    ELSE (IF Head(stmts).s = "Return" THEN <<>>
          ELSE IF Head(stmts).s = "If"
          THEN <<[Head(stmts) EXCEPT
                     !.then = without_returns(@),
                     !.else = IF @ = NoneOpt THEN @ ELSE Some(without_returns(@[1]))]>>
          ELSE <<Head(stmts)>>)
         \o without_returns(Tail(stmts))

\* top-level if statements with return statements at depth 1, 2 and 3
ReturnBlocks ==
    {StmtOf(src) : src \in
        {"if (1 == 1) [ return x = 1 y = 5 ]",
         "if (1 == 2) [ y = 1 ] else [ return y = 2 ]",
         "if (1 == 1) [ if (1 == 2) [ ] else [ return if (1 == 1) [ return 2 z = 6 print(\"in {}\", z) ] z = z + 1 ] print(\"out {}\", z) return 1 / 0 ]",
         "if (1 == 1) [ return 1 / 0 q ]"}}

\* C11: a return statement executed in top-level context, directly or in
\* the body of a top-level if at any depth, has no control-flow effect: the
\* statements after it in its block and the later top-level statements run,
\* as they do in the program without the return statement.
TopLevelReturnNoControl ==
    /\ \A S \in ReturnBlocks :
           run_statement(S, env, func_defs, out)
               = run_statement(without_returns(<<S>>)[1], env, func_defs, out)
    /\ \E r \in {run_statement(StmtOf("if (1 == 1) [ if (1 == 2) [ ] else [ return if (1 == 1) [ return 2 z = 6 print(\"in {}\", z) ] z = z + 1 ] print(\"out {}\", z) return 1 / 0 ]"),
                               env, func_defs, out)} :
           /\ r.ok
           /\ r.env = insert(env, "z", VInt(7))
           /\ r.out = out \o <<"in 6", "out 7">>
    /\ (LastRun > 0 /\ Last.s = "If") =>
           \E r \in {run_statement(without_returns(<<Last>>)[1],
                                   hist.env, hist.func_defs, hist.out)} :
               /\ env = r.env /\ func_defs = r.fd /\ out = r.out
               /\ (phase = "runtime_error") = ~r.ok
    /\ (LastRun > 0 /\ Last.s = "Return") =>
           /\ env = hist.env /\ func_defs = hist.func_defs /\ out = hist.out
           /\ phase \in {"run", "done"}
           /\ LastRun < Len(statements) => phase = "run"

\* the program has run  if (x == 2.0) [ .. ] else [ return 1 x = "s" ]  with
\* x = 4: the else body went on after its return and bound x to "s", and the
\* loop of main goes on
TopLevelReturnNoControlWitness ==
    /\ LastRun > 0 /\ phase = "run"
    /\ Last = StmtOf("if (x == 2.0) [ x = f(1) ] else [ return 1 x = \"s\" ]")
    /\ "x" \in DOMAIN hist.env /\ hist.env["x"] = VInt(4)
    /\ env = insert(hist.env, "x", VStr("s"))

(***************************************************************************)
(* C12  a call resolves its name in the Function table of the moment       *)
(***************************************************************************)
\* the Function table after the definition of a function that calls itself
WithCountdown ==
    run_statement(StmtOf("fn r(n) [ if (n > 0) [ return r(n - 1) ] return n ]"),
                  env, func_defs, out).fd

\* calls of the functions of the pool, by the name they call
CallsByName ==
    [f |-> ExprOf("f(1)"), g |-> ExprOf("g(2)"), k |-> ExprOf("k()"), r |-> ExprOf("r(2)")]

not_defined(name) == "Function '" \o name \o "' is not defined"

\* the error of a call of g whose first body statement failed with msg
in_g(msg) == "Function 'g' Execution Error (Stmt 1): " \o msg

\* C12: a call looks its name up in the Function table as it is when the
\* call executes.  A body may call itself, and may call a function defined
\* later in the source once that definition has been executed; a call
\* executed before the definition of the called function has been executed
\* raises the not-defined error.
CallResolvesAtCallTime ==
    /\ \A name \in DOMAIN CallsByName :
           name \notin DOMAIN func_defs =>
               eval(CallsByName[name], env, func_defs, out, MaxDepth)
                   = RErr(not_defined(name), env, out)
    /\ \E r \in {eval(ExprOf("r(2)"), env, WithCountdown, out, MaxDepth)} :
           r.ok /\ r.val = VInt(0)
    /\ "g" \in DOMAIN func_defs =>
           \E r \in {eval(ExprOf("g(2)"), env, func_defs, out, MaxDepth)} :
               /\ "f" \notin DOMAIN func_defs => ~r.ok /\ r.err = in_g(not_defined("f"))
               /\ "f" \in DOMAIN func_defs => r.err # in_g(not_defined("f"))
               /\ ("f" \in DOMAIN func_defs /\ Len(func_defs["f"].params) = 1) =>
                      r.ok /\ r.val = VInt(1) /\ r.out = Append(out, "f 2")
    /\ (LastRun > 0 /\ Last = StmtOf("z = f(x = 3)") /\ "f" \notin DOMAIN hist.func_defs) =>
           /\ phase = "runtime_error"
           /\ err = "Runtime Error (Statement " \o IntToStr(LastRun) \o "): " \o not_defined("f")
           /\ env = hist.env /\ out = hist.out

\* g, whose body calls f, was defined first; the program has now executed
\* the definition of f: the call g(2) failed before it and succeeds after it
CallResolvesAtCallTimeWitness ==
    /\ LastRun > 0 /\ phase = "run"
    /\ Last.s = "Def" /\ Last.name = "f" /\ Len(Last.params) = 1
    /\ "g" \in DOMAIN hist.func_defs /\ "f" \notin DOMAIN hist.func_defs
    /\ eval(ExprOf("g(2)"), hist.env, hist.func_defs, hist.out, MaxDepth).err = in_g(not_defined("f"))
    /\ eval(ExprOf("g(2)"), env, func_defs, out, MaxDepth).val = VInt(1)
    /\ eval(ExprOf("r(2)"), env, WithCountdown, out, MaxDepth).val = VInt(0)

(***************************************************************************)
(* C13  the value of a call whose body ends without a return               *)
(***************************************************************************)
\* functions whose bodies end without executing a return, and the value the
\* call of each is to yield
ContinueBodies ==
    { [src |-> "fn e() [ ]", val |-> Void],
      [src |-> "fn e() [ print(\"p\") ]", val |-> Void],
      [src |-> "fn e() [ 5 print(\"p\") print(\"{}\", 6) ]", val |-> VInt(5)],
      [src |-> "fn e() [ 5 v = 7 ]", val |-> VInt(7)],
      [src |-> "fn e() [ v = 7 \"s\" 1 == 1 ]", val |-> VBool(TRUE)],
      [src |-> "fn e() [ 5 if (1 == 2) [ 6 ] ]", val |-> Void],
      [src |-> "fn e() [ if (1 == 2) [ return 6 ] 2.5 print(\"p\") ]", val |-> VFloat(parse_f64("2.5"))] }

\* the carriers the statements of a body produce when run in order, the
\* output of each print being written before the next statement runs
RECURSIVE body_flows(_, _, _, _)
body_flows(stmts, e, fd, o) ==
    IF stmts = <<>> THEN <<>>
    ELSE Bind(run_statement_in_function(Head(stmts), e, fd, o, MaxDepth - 1), LAMBDA r :
              IF ~r.ok THEN <<>>
              ELSE <<r.flow>> \o body_flows(Tail(stmts), r.env, fd,
                                            IF r.flow.c = "Print" THEN Append(r.out, r.flow.text)
                                            ELSE r.out))

\* the value of the last Continue among carriers, Void when there is none
last_continue(flows) ==
    IF \A i \in DOMAIN flows : flows[i].c # "Continue" THEN Void
    ELSE flows[CHOOSE i \in DOMAIN flows :
                   /\ flows[i].c = "Continue"
                   /\ \A j \in DOMAIN flows : j > i => flows[j].c # "Continue"].val

\* C13: when a function body finishes without executing a return, the call
\* yields the value of the last Continue a body statement produced (a print
\* produces none), and Void when no statement produced one, as for an empty
\* body.
ImplicitReturn ==
    /\ \A d \in ContinueBodies :
           \E fd \in {run_statement(StmtOf(d.src), env, func_defs, out).fd} :
           \E r \in {eval(ExprOf("e()"), env, fd, out, MaxDepth)} :
           \E flows \in {body_flows(fd["e"].body, EmptyEnv, fd, out)} :
               /\ r.ok
               /\ Len(flows) = Len(fd["e"].body)
               /\ \A i \in DOMAIN flows : flows[i].c # "Return"
               /\ r.val = last_continue(flows)
               /\ r.val = d.val
    /\ \A name \in DOMAIN func_defs :
           Len(func_defs[name].params) = 1 =>
               \E r \in {eval(Call(name, <<Num("1")>>), env, func_defs, out, MaxDepth)} :
               \E flows \in {body_flows(func_defs[name].body,
                                        insert(EmptyEnv, func_defs[name].params[1], VInt(1)),
                                        func_defs, out)} :
                   (/\ Len(flows) = Len(func_defs[name].body)
                    /\ \A i \in DOMAIN flows : flows[i].c # "Return") =>
                       r.ok /\ r.val = last_continue(flows)

\* the program has executed  x = f(1)  in the then-body of the if: the body
\* of f ran its print and its if without a return, and the call yielded 3,
\* the value of its last statement  y + 1
ImplicitReturnWitness ==
    /\ LastRun > 0 /\ phase = "run"
    /\ Last = StmtOf("if (x == 2.0) [ x = f(1) ] else [ return 1 x = \"s\" ]")
    /\ "x" \in DOMAIN hist.env /\ hist.env["x"] = VInt(2)
    /\ "f" \in DOMAIN func_defs /\ Len(func_defs["f"].params) = 1
    /\ \E flows \in {body_flows(func_defs["f"].body, insert(EmptyEnv, "a", VInt(1)),
                                func_defs, hist.out)} :
           /\ Len(flows) = 4
           /\ flows[2].c = "Print" /\ flows[3] = Continue(Void) /\ flows[4] = Continue(VInt(3))
    /\ env = insert(hist.env, "x", VInt(3))
    /\ out = Append(hist.out, "f 1")

(***************************************************************************)
(* C14  the lexer terminates                                               *)
(***************************************************************************)
\* C14: on every input, a call of next_token that does not return Eof moves
\* the position forward by at least one character, the position never
\* exceeds the length of the input, Eof is reached after finitely many
\* calls, and every call after the first Eof returns Eof again.
LexerTerminates ==
    /\ [](lexer.pos <= Len(input))
    /\ [][/\ lexer'.current # Eof => lexer'.pos >= lexer.pos + 1
          /\ lexer.eofs > 0 => lexer'.current = Eof /\ lexer'.pos = lexer.pos]_vars
    /\ <>(lexer.eofs > 0)

\* the lexer has gone through  a="\  (an identifier, an operator and a string
\* literal cut short after a backslash) and has returned Eof twice
LexerTerminatesWitness ==
    /\ phase = "lex"
    /\ input = "a=\"\\"
    /\ lexer = [pos |-> 4, current |-> Eof, eofs |-> 2]

(***************************************************************************)
(* C15  placeholders and arguments of print                                *)
(***************************************************************************)
\* the pieces of a format string between its {} placeholders, read from left
\* to right; acc is the piece being read
RECURSIVE pieces(_, _, _)
pieces(str, i, acc) ==
    IF i > Len(str) THEN <<acc>>
    ELSE IF i < Len(str) /\ SubSeq(str, i, i + 1) = "{}"
    THEN <<acc>> \o pieces(str, i + 2, "")
    ELSE pieces(str, i + 1, acc \o SubSeq(str, i, i))

\* the pieces from the k-th on, each after the text that takes the place of
\* the placeholder before it: an argument's, or {} when the arguments ran out
RECURSIVE filled(_, _, _)
filled(ps, texts, k) ==
    IF k > Len(ps) THEN ""
    ELSE (IF k - 1 <= Len(texts) THEN texts[k - 1] ELSE "{}")
         \o ps[k] \o filled(ps, texts, k + 1)

\* the print statement of a program of PrintSources, and whether it is the
\* body of the function p
PrintOfProgram == IF statements[1].s = "Def" THEN statements[1].body[1] ELSE statements[1]
PrintInFunction == statements[1].s = "Def"

not_enough(fmt) == "Not enough placeholders ({}) in format string: \"" \o fmt \o "\""

\* C15: for a print with a format string of p placeholders and n arguments:
\* if p < n the statement raises an error and the print writes nothing; if
\* p >= n the first n placeholders are replaced in order by the printable
\* forms of the arguments and the other p - n stay in the output as {}.
PrintPlaceholders ==
    (/\ Len(statements) > 0 /\ LastRun = Len(statements)
     /\ PrintOfProgram.s = "Print" /\ PrintOfProgram.fmt # NoneOpt) =>
        \E results \in {eval_all(PrintOfProgram.args, <<>>, EmptyEnv, func_defs, <<>>, MaxDepth)} :
        \E ps \in {pieces(PrintOfProgram.fmt[1], 1, "")} :
            results.ok =>
                IF Len(ps) - 1 < Len(PrintOfProgram.args)
                THEN /\ phase = "runtime_error"
                     /\ out = <<>>
                     /\ err = "Runtime Error (Statement " \o IntToStr(LastRun) \o "): "
                              \o (IF PrintInFunction
                                  THEN "Function 'p' Execution Error (Stmt 1): " ELSE "")
                              \o not_enough(PrintOfProgram.fmt[1])
                ELSE /\ phase \in {"run", "done"}
                     /\ err = ""
                     /\ out = <<ps[1] \o filled(ps, [i \in DOMAIN results.val |->
                                                        Printable(results.val[i])], 2)>>

\* the program  print("a{}b{}", '{}')  has run: the first placeholder took
\* the text {} of the argument and the second stayed
PrintPlaceholdersWitness ==
    /\ phase = "done"
    /\ input = "print(\"a{}b{}\", '{}')"
    /\ out = <<"a{}b{}">>
    /\ pieces(PrintOfProgram.fmt[1], 1, "") = <<"a", "b", "">>

(***************************************************************************)
(* C16  no function definition inside a block                              *)
(***************************************************************************)
\* sources with a fn at statement position in a function body, a then-body
\* and an else-body, at depth 1 to 3
BlockDefSources ==
    {"fn f() [ fn g() [ ] ]",
     "if (1 == 1) [ fn g() [ ] ]",
     "x = 1 if (x == 2) [ x ] else [ x = 2 fn g() [ ] x = 3 ]",
     "fn f(a) [ if (a == 1) [ if (a == 2) [ 1 ] else [ a = 1 fn g() [ ] ] ] return a ]"}

bad_fn == "Bad token in prefix: Keyword(\"fn\") (Expected expression start or operator)"

\* whether the text pat occurs in the text str
has_text(str, pat) ==
    \E i \in 0..(Len(str) - Len(pat)) : SubSeq(str, i + 1, i + Len(pat)) = pat

\* no statement of a block, at any depth, is a function definition
RECURSIVE no_def_in(_)
no_def_in(stmts) ==
    \A i \in DOMAIN stmts :
        /\ stmts[i].s # "Def"
        /\ stmts[i].s = "If" =>
               /\ no_def_in(stmts[i].then)
               /\ stmts[i].else # NoneOpt => no_def_in(stmts[i].else[1])

\* C16: a source with a fn at statement position inside a block is rejected
\* with an error, and the Function table never gains an entry from a
\* statement inside a block: its entries are those of the top-level
\* definitions executed so far.
NoDefinitionInBlock ==
    /\ \A src \in BlockDefSources :
           \E r \in {parse(src)} : ~r.ok /\ r.err = bad_fn
    /\ has_text(input, "[ fn") =>
           /\ phase \in {"start", "parse_error"}
           /\ statements = <<>> /\ func_defs = EmptyDefs /\ out = <<>>
           /\ phase = "parse_error" => err = "Parsing Error: " \o bad_fn
    /\ \A i \in DOMAIN statements :
           /\ statements[i].s = "Def" => no_def_in(statements[i].body)
           /\ statements[i].s = "If" => no_def_in(<<statements[i]>>)
    /\ \A name \in DOMAIN func_defs :
           \E i \in 1..idx :
               statements[i] = StDef(name, func_defs[name].params, func_defs[name].body)

\* a source whose last line is  if (x) [ fn k() [ ] ]  after the definition
\* of f has been rejected by the parser: nothing of it has run
NoDefinitionInBlockWitness ==
    /\ phase = "parse_error"
    /\ has_text(input, "fn f(a, b)")
    /\ has_text(input, "if (x) [ fn k() [ ] ]")
    /\ err = "Parsing Error: " \o bad_fn
    /\ func_defs = EmptyDefs

(***************************************************************************)
(* The operation of a program of OperatorSources that has run: its         *)
(* operator and the values of its operands                                 *)
(***************************************************************************)
OperatorRan == Len(statements) = 1 /\ LastRun = 1
Operation == statements[1].expr.rhs
LeftOperand == eval(Operation.lhs, EmptyEnv, EmptyDefs, <<>>, MaxDepth).val
RightOperand == eval(Operation.rhs, EmptyEnv, EmptyDefs, <<>>, MaxDepth).val

\* the statement raised msg and bound nothing
Raised(msg) ==
    /\ phase = "runtime_error"
    /\ err = "Runtime Error (Statement 1): " \o msg
    /\ env = EmptyEnv

\* the statement bound r to a value
Yielded == phase \in {"run", "done"} /\ err = "" /\ DOMAIN env = {"r"}

(***************************************************************************)
(* C17  Integer division and remainder                                     *)
(***************************************************************************)
\* rem is a remainder of a by b: smaller than b in magnitude, and zero or of
\* the sign of a
remainder_of(rem, a, b) ==
    /\ MagCmp(rem.mag, b.mag) < 0
    /\ is_zero(rem) \/ rem.neg = a.neg

\* C17: for Integers a and b, b not zero, a / b is the quotient truncated
\* toward zero and a % b the remainder, with (a / b) * b + (a % b) = a and
\* the remainder zero or of the sign of a, both Integers; with b zero,
\* a / b and a % b raise an error and yield no value.
IntegerDivision ==
    (OperatorRan /\ Operation.e = "Infix" /\ Operation.op \in {"/", "%"}) =>
        \E a \in {LeftOperand}, b \in {RightOperand} :
            /\ a.t = "Integer" /\ b.t = "Integer"
            /\ IF is_zero(b.i)
               THEN Raised(IF Operation.op = "/" THEN "Division by zero" ELSE "Modulo by zero")
               ELSE /\ Yielded
                    /\ env["r"].t = "Integer"
                    /\ Operation.op = "/" =>
                           remainder_of(BigSub(a.i, BigMul(env["r"].i, b.i)), a.i, b.i)
                    /\ Operation.op = "%" =>
                           /\ remainder_of(env["r"].i, a.i, b.i)
                           /\ \E q \in {int_arith("/", a.i, b.i)} :
                                  q.ok /\ BigAdd(BigMul(q.val.i, b.i), env["r"].i) = a.i

\* the program  r = (-99999999999999999999) / 7  has run: r is
\* -14285714285714285714, and 7 * r is 1 above the dividend
IntegerDivisionWitness ==
    /\ OperatorRan /\ phase = "done"
    /\ input = "r = (-99999999999999999999) / 7"
    /\ env["r"] = VInteger(BigNeg(parse_bigint("14285714285714285714")))
    /\ BigSub(LeftOperand.i, BigMul(env["r"].i, RightOperand.i)) = BigInt_from(-1)

(***************************************************************************)
(* C18  Integer power                                                      *)
(***************************************************************************)
\* the product of k copies of b, k a natural number, one multiplication at a
\* time
RECURSIVE product_of_copies(_, _)
product_of_copies(b, k) ==
    IF k = 0 THEN BigOne ELSE BigMul(product_of_copies(b, k - 1), b)

\* the largest exponent product_of_copies is asked for
MaxCopies == 10

pow_refused == "Integer exponentiation only supports positive exponents up to u32 max"

\* C18: for Integers b and e, b ^ e with e > 0 within the unsigned 32-bit
\* range is the Integer product of e copies of b; b ^ 0 is Integer 1 for
\* every b, 0 included; b ^ e with e < 0 raises an error.
IntegerPower ==
    (OperatorRan /\ Operation.e = "Infix" /\ Operation.op = "^") =>
        \E b \in {LeftOperand}, e \in {RightOperand} :
            /\ b.t = "Integer" /\ e.t = "Integer"
            /\ e.i.neg => Raised(pow_refused)
            /\ is_zero(e.i) => Yielded /\ env["r"] = VInt(1)
            /\ (is_positive(e.i) /\ MagCmp(e.i.mag, MagOfNat(MaxCopies)) <= 0) =>
                   /\ Yielded
                   /\ env["r"] = VInteger(product_of_copies(b.i, MagToNat(e.i.mag)))
            /\ (is_positive(e.i) /\ MagCmp(e.i.mag, U32Max) = 0) =>
                   /\ Yielded
                   /\ env["r"] = (IF is_zero(b.i) THEN VInt(0) ELSE b)

\* the program  r = (-3) ^ 3  has run: r is -27
IntegerPowerWitness ==
    /\ OperatorRan /\ phase = "done"
    /\ input = "r = (-3) ^ 3"
    /\ env["r"] = VInt(-27)

(***************************************************************************)
(* C19  the operand variants of the ordering operators                     *)
(***************************************************************************)
incompatible(op, l, r) ==
    "Incompatible types for ordering operator '" \o op \o "': " \o DebugVal(l)
    \o " and " \o DebugVal(r)

\* C19: <, >, <= and >= yield a Boolean only when both operands are
\* Integers, both Floats or both Strings; for every other pair of operand
\* variants (an Integer with a Float, two Booleans, Void with anything) they
\* raise an error.
OrderingOperands ==
    (OperatorRan /\ Operation.e = "Cmp" /\ Operation.op \in OrderOperators) =>
        \E l \in {LeftOperand}, r \in {RightOperand} :
            /\ IF l.t = r.t /\ l.t \in {"Integer", "Float", "String"}
               THEN Yielded /\ env["r"].t = "Boolean"
               ELSE Raised(incompatible(Operation.op, l, r))
            /\ \A v \in {l, r, Void} :
                   /\ compare(Operation.op, Void, v) = VErr(incompatible(Operation.op, Void, v))
                   /\ compare(Operation.op, v, Void) = VErr(incompatible(Operation.op, v, Void))

\* the program  r = 2 <= 2.5  has run: an Integer and a Float are not
\* ordered, and r is not bound
OrderingOperandsWitness ==
    /\ OperatorRan /\ phase = "runtime_error"
    /\ input = "r = 2 <= 2.5"
    /\ err = "Runtime Error (Statement 1): Incompatible types for ordering operator '<=': Integer(2) and Float(2.5)"
    /\ env = EmptyEnv

(***************************************************************************)
(* C20  the carrier of an if statement in function context                 *)
(***************************************************************************)
\* functions whose last executed statement is an if whose executed body ends
\* without a return, and the value of the last Continue of that body
IfBodies ==
    { [src |-> "fn e() [ 1 if (1 == 1) [ ] ]", val |-> Void],
      [src |-> "fn e() [ 1 if (1 == 2) [ 5 ] ]", val |-> Void],
      [src |-> "fn e() [ 1 if (1 == 1) [ print(\"p\") ] ]", val |-> Void],
      [src |-> "fn e() [ 1 if (1 == 1) [ 5 ] ]", val |-> VInt(5)],
      [src |-> "fn e() [ if (1 == 2) [ 5 ] else [ v = 6 print(\"p\") ] ]", val |-> VInt(6)],
      [src |-> "fn e() [ if (1 == 1) [ 5 if (1 == 1) [ \"s\" ] ] ]", val |-> VStr("s")],
      [src |-> "fn e() [ if (1 == 1) [ 5 if (1 == 2) [ 7 ] ] ]", val |-> Void] }

\* the call e() once the function of source src is defined
CallOfE(src) ==
    eval(ExprOf("e()"), env, run_statement(StmtOf(src), env, func_defs, out).fd, out, MaxDepth)

\* the value of the last Continue of the body an if statement executes
executed_body_value(stmt, e, fd, o) ==
    Bind(eval(stmt.cond, e, fd, o, MaxDepth - 1), LAMBDA c :
         IF c.val.b THEN last_continue(body_flows(stmt.then, c.env, fd, c.out))
         ELSE IF stmt.else # NoneOpt
         THEN last_continue(body_flows(stmt.else[1], c.env, fd, c.out))
         ELSE Void)

\* the Environment of a call of a function of the pool with the argument k
\* that has reached an if statement of the body
LocalAt(k) == [n \in {"a", "x", "y"} |-> IF n = "a" THEN VInt(k) ELSE VInt(0)]

FloatGreaterOrEqual ==
    (/\ OperatorRan /\ Operation.e = "Cmp" /\ Operation.op = ">="
     /\ LeftOperand.t = "Float" /\ RightOperand.t = "Float") =>
        /\ Yielded
        /\ env["r"] = VBool(FLe(RightOperand.f, LeftOperand.f))


(***************************************************************************)
(* C22  unary + and -                                                      *)
(***************************************************************************)
PrefixRan == OperatorRan /\ Operation.e = "Prefix"
PrefixOperand == eval(Operation.rhs, EmptyEnv, EmptyDefs, <<>>, MaxDepth).val

\* r is the negation of v in the variant of v: an Integer with v + r = 0, a
\* Float of the same magnitude and the other sign
negation_of(v, r) ==
    /\ r.t = v.t
    /\ v.t = "Integer" => is_zero(BigAdd(v.i, r.i))
    /\ v.t = "Float" => r.f = [v.f EXCEPT !.neg = ~v.f.neg]

unary_minus_refused(v) == "Unary minus only works on numbers, found " \o DebugVal(v)

\* C22 as stated: unary + and unary - accept only Integer or Float operands;
\* on a String, Boolean or Void operand either operator raises an error; on
\* a number, + returns the operand and - its negation in the same variant.
UnaryNumbersOnly ==
    PrefixRan =>
        \E v \in {PrefixOperand} :
            IF is_number(v)
            THEN /\ Yielded
                 /\ Operation.op = "+" => env["r"] = v
                 /\ Operation.op = "-" => negation_of(v, env["r"])
            ELSE phase = "runtime_error" /\ env = EmptyEnv

\* C22: unary - accepts only Integer or Float operands: on a number it
\* returns the negation in the same variant, on a String, Boolean or Void
\* operand it raises an error; unary + returns its operand unchanged, whatever
\* the variant of the operand, and raises nothing.
UnaryPlusAnyOperand ==
    /\ PrefixRan =>
        \E v \in {PrefixOperand} :
            /\ Operation.op = "+" => Yielded /\ env["r"] = v
            /\ (Operation.op = "-" /\ is_number(v)) =>
                   Yielded /\ negation_of(v, env["r"])
            /\ (Operation.op = "-" /\ ~is_number(v)) => Raised(unary_minus_refused(v))
    /\ prefix("+", Void) = VOk(Void)
    /\ prefix("-", Void) = VErr(unary_minus_refused(Void))

\* the program  r = + 'a'  has run: r is the String a
UnaryPlusAnyOperandWitness ==
    /\ PrefixRan /\ phase = "done"
    /\ input = "r = + 'a'"
    /\ env["r"] = VStr("a")


(***************************************************************************)
(* C23  unterminated string literals                                       *)
(***************************************************************************)
\* the text from pos on leaves a string literal open at the end of the input:
\* delimiter is the delimiter of the literal pos is in, None outside of one
RECURSIVE open_at_end(_, _, _)
open_at_end(inp, pos, delimiter) ==
    IF pos >= Len(inp) THEN delimiter # None
    ELSE IF delimiter = None
    THEN IF peek_char(inp, pos) = ";" THEN open_at_end(inp, skip_comment(inp, pos + 1), None)
         ELSE IF peek_char(inp, pos) \in StringDelimiters
         THEN open_at_end(inp, pos + 1, peek_char(inp, pos))
         ELSE open_at_end(inp, pos + 1, None)
    ELSE IF peek_char(inp, pos) = "\\" THEN open_at_end(inp, pos + 2, delimiter)
    ELSE IF peek_char(inp, pos) = delimiter THEN open_at_end(inp, pos + 1, None)
    ELSE open_at_end(inp, pos + 1, delimiter)

\* C23: every source in which a string literal is opened and not closed
\* before the end of the input is rejected with a parse error, and none of
\* its statements executes.
UnterminatedStringRejected ==
    (open_at_end(input, 0, None) /\ phase # "start") =>
        /\ phase = "parse_error"
        /\ statements = <<>> /\ env = EmptyEnv /\ out = <<>>


(***************************************************************************)
(* C24  the text of a Number token                                         *)
(***************************************************************************)
is_digits(s) == \A i \in 1..Len(s) : SubSeq(s, i, i) \in Digits

\* s is a non-empty run of digits, or one followed by a dot and a run of at
\* least min_frac digits
number_text(s, min_frac) ==
    \E d \in 1..Len(s) :
        /\ is_digits(SubSeq(s, 1, d))
        /\ \/ d = Len(s)
           \/ /\ SubSeq(s, d + 1, d + 1) = "."
              /\ Len(s) - d - 1 >= min_frac
              /\ is_digits(SubSeq(s, d + 2, Len(s)))

NumberLexed == phase = "lex" /\ lexer.current.k = "Number"

\* C24 as stated: the text of every Number token is a run of digits, or a run
\* of digits, one dot and a non-empty run of digits.
NumberDotBeforeDigit == NumberLexed => number_text(lexer.current.s, 1)

\* C24: the lexer takes a . that follows the digits of a number into the
\* Number token whether or not a digit follows the dot: the text of every
\* Number token is a run of digits, or a run of digits, one dot and a
\* possibly empty run of digits; it is the text of the input in front of the
\* position, and the input goes on with neither a digit nor, after a text
\* without a dot, a dot.
NumberDotAlways ==
    NumberLexed =>
        \E s \in {lexer.current.s} :
            /\ number_text(s, 0)
            /\ lexer.pos >= Len(s) /\ s = SubSeq(input, lexer.pos - Len(s) + 1, lexer.pos)
            /\ peek_char(input, lexer.pos) \notin Digits
            /\ (\A i \in 1..Len(s) : SubSeq(s, i, i) # ".") => peek_char(input, lexer.pos) # "."

\* the lexer has read  1.  as one Number token and stands at the a of  1.a
NumberDotAlwaysWitness ==
    /\ NumberLexed
    /\ input = "1.a"
    /\ lexer = [pos |-> 2, current |-> Tok("Number", "1."), eofs |-> 0]


(***************************************************************************)
(* C25  grouping of binary operators                                       *)
(***************************************************************************)
\* the words of str from position i on, separated by single spaces; acc is
\* the word being read
RECURSIVE words(_, _, _)
words(str, i, acc) ==
    IF i > Len(str) THEN <<acc>>
    ELSE IF SubSeq(str, i, i) = " " THEN <<acc>> \o words(str, i + 1, "")
    ELSE words(str, i + 1, acc \o SubSeq(str, i, i))

\* the levels of the table, from the loosest to the tightest
level(op) ==
    CASE op \in {"=", "+=", "^="} -> 1
      [] op = "or" -> 2
      [] op = "and" -> 3
      [] op \in {"<", "=="} -> 4
      [] op \in {"+", "-"} -> 5
      [] op \in {"*", "/", "%"} -> 6
      [] op = "^" -> 7

\* the operator at which the words w[lo..hi] (operands at the odd places,
\* operators at the even ones) split: one of the loosest level, the first of
\* them for assignments and the last of them for every other level
split_at(w, lo, hi) ==
    LET ops == {k \in lo..hi : (k - lo) % 2 = 1}
        loosest == {k \in ops : \A j \in ops : level(w[k]) <= level(w[j])}
    IN  IF \E k \in loosest : level(w[k]) = 1
        THEN CHOOSE k \in loosest : \A j \in loosest : k <= j
        ELSE CHOOSE k \in loosest : \A j \in loosest : k >= j

Refused == [e |-> "Refused"]

operand(x) == IF SubSeq(x, 1, 1) \in Digits THEN Num(x) ELSE Var(x)

\* the node of operator op over the groups l and r
node(op, l, r) ==
    IF l = Refused \/ r = Refused THEN Refused
    ELSE IF op \in {"+=", "^="}
    THEN IF l.e = "Var" THEN Infix(l, "=", Infix(l, SubSeq(op, 1, 1), r)) ELSE Refused
    ELSE IF level(op) = 4 THEN Cmp(l, op, r)
    ELSE IF level(op) \in {2, 3} THEN Logic(l, op, r)
    ELSE Infix(l, op, r)

\* the expression the table gives for the words w[lo..hi]
RECURSIVE grouped(_, _, _)
grouped(w, lo, hi) ==
    IF lo = hi THEN operand(w[lo])
    ELSE node(w[split_at(w, lo, hi)],
              grouped(w, lo, split_at(w, lo, hi) - 1),
              grouped(w, split_at(w, lo, hi) + 1, hi))

\* C25: the parser groups the operands of an expression of binary operators
\* by the binding-power table: ^ binds tighter than * / %, these tighter than
\* binary + -, then the comparisons, then and, then or, then =; the
\* operators of one level group left to right, and assignment, simple or
\* compound, groups right to left.  (A compound assignment whose left side is
\* not a variable is refused.)
GroupingByTable ==
    phase # "start" =>
        \E w \in {words(input, 1, "")} :
            \E g \in {grouped(w, 1, Len(w))} :
                IF g = Refused THEN phase = "parse_error" /\ statements = <<>>
                ELSE phase # "parse_error" /\ statements = <<StExpr(g)>>

\* r = 2 ^ 3 ^ 2  has run: r is (2 ^ 3) ^ 2
GroupingByTableWitness ==
    /\ phase = "done"
    /\ input = "r = 2 ^ 3 ^ 2"
    /\ statements[1].expr.rhs = Infix(Infix(Num("2"), "^", Num("3")), "^", Num("2"))
    /\ env["r"] = VInt(64)


(***************************************************************************)
(* C26  emitted text is not substituted again                              *)
(***************************************************************************)
\* the positions at which a {} starts in the format string
placeholder_starts(fmt) == {i \in 1..(Len(fmt) - 1) : SubSeq(fmt, i, i + 1) = "{}"}

\* the position of the k-th {} of the format string
placeholder_start(fmt, k) ==
    CHOOSE i \in placeholder_starts(fmt) :
        Cardinality({j \in placeholder_starts(fmt) : j < i}) = k - 1

\* the format string with its k-th, (k-1)-th, ... and first {} replaced by the
\* texts of the same numbers, each at its position in the format string
RECURSIVE replaced_at(_, _, _, _)
replaced_at(fmt, str, texts, k) ==
    IF k = 0 THEN str
    ELSE replaced_at(fmt,
                     SubSeq(str, 1, placeholder_start(fmt, k) - 1) \o texts[k]
                     \o SubSeq(str, placeholder_start(fmt, k) + 2, Len(str)),
                     texts, k - 1)

\* C26: a print with a format string whose arguments evaluate emits the
\* format string with its k-th {} replaced by the printable form of the k-th
\* argument, whatever the printable forms of the arguments contain ({} or a
\* { that comes to stand before a } of the format string); with more
\* arguments than the format string has {} it raises an error and emits
\* nothing.
SubstitutesOriginal ==
    (/\ Len(statements) > 0 /\ LastRun = Len(statements)
     /\ PrintOfProgram.s = "Print" /\ PrintOfProgram.fmt # NoneOpt) =>
        \E results \in {eval_all(PrintOfProgram.args, <<>>, EmptyEnv, func_defs, <<>>, MaxDepth)} :
        \E fmt \in {PrintOfProgram.fmt[1]} :
            results.ok =>
                IF Len(results.val) > Cardinality(placeholder_starts(fmt))
                THEN phase = "runtime_error" /\ out = <<>>
                ELSE /\ phase \in {"run", "done"}
                     /\ out = <<replaced_at(fmt, fmt,
                                            [i \in DOMAIN results.val |->
                                                Printable(results.val[i])],
                                            Len(results.val))>>

\* the program  print("a{}b{}", '{}', 1)  has run: the text {} of the first
\* argument stands in the output and the second argument took the second
\* placeholder of the format string
SubstitutesOriginalWitness ==
    /\ phase = "done"
    /\ input = "print(\"a{}b{}\", '{}', 1)"
    /\ placeholder_starts(PrintOfProgram.fmt[1]) = {2, 5}
    /\ out = <<"a{}b1">>


(***************************************************************************)
(* C27  parsing is all-or-nothing                                          *)
(***************************************************************************)
\* C27: when the parser reports an error on the source, in every state of
\* the run no statement has been handed to the interpreter or executed,
\* nothing has been printed, and the environment and the function table are
\* empty; this also holds when statements before the error are well-formed.
NothingRunsOnParseError ==
    ~parse(input).ok =>
        /\ phase \in {"start", "parse_error"}
        /\ statements = <<>>
        /\ idx = 0
        /\ out = <<>>
        /\ env = EmptyEnv
        /\ func_defs = EmptyDefs

\* the parser has reported the error of the third statement of a source
\* whose first two statements, a function definition that prints and a call
\* of it, are well-formed
NothingRunsOnParseErrorWitness ==
    /\ phase = "parse_error"
    /\ input = "\nfn f(a, b) [ print(\"f {} {}\", a, b) return a - b ]"
               \o "\nf(x = 1, x + 1)\nif (x) [ fn k() [ ] ]"
    /\ err = "Parsing Error: " \o bad_fn
    /\ statements = <<>>
    /\ out = <<>>


(***************************************************************************)
(* C28  if/else bodies do not open a scope                                 *)
(***************************************************************************)
\* the body an if statement executes when its condition is evaluated in e
chosen_body(stmt, e, fd) ==
    IF eval(stmt.cond, e, fd, <<>>, MaxDepth).val.b THEN stmt.then
    ELSE IF stmt.else = NoneOpt THEN <<>> ELSE stmt.else[1]

\* the variables the statements of a body assign to
assigned_in(stmts) ==
    {stmts[i].expr.lhs.id :
         i \in {j \in DOMAIN stmts : /\ stmts[j].s = "Expr"
                                     /\ stmts[j].expr.e = "Infix"
                                     /\ stmts[j].expr.op = "="}}

\* the statements run one after the other as top-level statements
RECURSIVE run_in_order(_, _, _, _)
run_in_order(stmts, e, fd, o) ==
    IF stmts = <<>> THEN [env |-> e, fd |-> fd, out |-> o]
    ELSE Bind(run_statement(Head(stmts), e, fd, o), LAMBDA r :
              run_in_order(Tail(stmts), r.env, r.fd, r.out))

\* a function body with each if statement replaced by the statements of the
\* body it executes when the parameter c has the value v
RECURSIVE unfolded(_, _, _)
unfolded(body, v, fd) ==
    IF body = <<>> THEN <<>>
    ELSE (IF Head(body).s = "If"
          THEN chosen_body(Head(body), insert(EmptyEnv, "c", v), fd)
          ELSE <<Head(body)>>) \o unfolded(Tail(body), v, fd)

\* the call  r = f(k)  run with the body of f unfolded
call_unfolded ==
    run_statement(Last, hist.env,
                  [hist.func_defs EXCEPT !["f"].body =
                       unfolded(@, eval(Last.expr.rhs.args[1], EmptyEnv, EmptyDefs,
                                        <<>>, MaxDepth).val, hist.func_defs)],
                  hist.out)

\* C28: an if statement executed at top level leaves the Environment, the
\* Function table and the output as the statements of the executed body
\* leave them when run in its place, so every variable the body assigns to
\* is bound afterwards and no binding is dropped; a call of a function whose
\* body holds an if statement yields the value, Environment and output of
\* the call of the function with the executed body in place of the if.
BodiesShareEnvironment ==
    /\ (idx > 0 /\ Last.s = "If" /\ phase \in {"run", "done"}) =>
           /\ [env |-> env, fd |-> func_defs, out |-> out]
                  = run_in_order(chosen_body(Last, hist.env, hist.func_defs),
                                 hist.env, hist.func_defs, hist.out)
           /\ assigned_in(chosen_body(Last, hist.env, hist.func_defs)) \subseteq DOMAIN env
           /\ DOMAIN hist.env \subseteq DOMAIN env
    /\ (/\ idx > 0 /\ Last.s = "Expr" /\ Last.expr.e = "Infix"
        /\ Last.expr.rhs.e = "Call") =>
           /\ call_unfolded.ok <=> phase \in {"run", "done"}
           /\ call_unfolded.ok => env = call_unfolded.env /\ out = call_unfolded.out

\* the program  c = 1 if (c == 1) [ x = 5 y = x + 1 ] r = x  has run: x and
\* y, first assigned in the then-body, are bound at top level and r has the
\* value of x
BodiesShareEnvironmentWitness ==
    /\ phase = "done"
    /\ input = "c = 1 if (c == 1) [ x = 5 y = x + 1 ] r = x"
    /\ DOMAIN env = {"c", "x", "y", "r"}
    /\ Display(env["r"]) = "5"
    /\ Display(env["y"]) = "6"


(***************************************************************************)
(* C29  what a return keyword takes as its expression                      *)
(***************************************************************************)
\* the local Environment of the call f(3) at its return statement
at_return ==
    [v \in {"x", "y"} |-> IF v = "x" THEN VInteger(parse_bigint("3"))
                          ELSE VInteger(parse_bigint("1"))]

\* the return statement of a continuation
return_of(n) ==
    StReturn(IF n \in ExpressionStarts THEN Some(ExprOf(n)) ELSE NoneOpt)

\* C29: for every separator of white space and line breaks, a return keyword
\* followed by a token that starts an expression (number, string literal,
\* identifier, ( + -) is parsed to a return of that expression, and the call
\* yields the expression's value; followed by ], the end of input, a keyword
\* or another operator it is parsed to a return without expression, the call
\* yields Void and the statements after it in the block are not executed (an
\* operator in that place is then a parse error at the start of the next
\* statement).
ReturnTakesExpression ==
    \A sep \in ReturnSeparators, n \in ExpressionStarts \cup OtherStarts :
        /\ (input = ReturnInFunction(sep, n) /\ phase # "start") =>
               /\ phase = "parse_error" <=> n \in {"* 7", "== 7"}
               /\ phase # "parse_error" =>
                      /\ statements[1].body[2] = return_of(n)
                      /\ n \in OtherStarts \ {""} => Len(statements[1].body) = 3
               /\ (idx = 2 /\ phase \in {"run", "done"}) =>
                      /\ env["r"] = IF n \in ExpressionStarts
                                    THEN eval(ExprOf(n), at_return, EmptyDefs, <<>>,
                                              MaxDepth).val
                                    ELSE Void
                      /\ out = <<>>
        /\ (input = ReturnAtTopLevel(sep, n) /\ phase # "start") =>
               /\ phase = "parse_error" <=> n \in {"* 7", "== 7"}
               /\ phase # "parse_error" =>
                      /\ statements[2] = return_of(n)
                      /\ Len(statements) = IF n \in OtherStarts \ {""} THEN 3 ELSE 2

\* the program whose function f holds  return  and, after an empty line, -7
\* has run: the call f(3) gave -7
ReturnTakesExpressionWitness ==
    /\ phase = "done"
    /\ input = ReturnInFunction(" \n\n  ", "-7")
    /\ statements[1].body[2].expr # NoneOpt
    /\ Display(env["r"]) = "-7"


(***************************************************************************)
(* C30  a string literal right after print( is the format string           *)
(***************************************************************************)
\* the parse error of a print whose arguments are not followed by )
no_close(tok) ==
    "Parsing Error: Expected closing ')' after print arguments, found " \o DebugTok(tok)

\* C30: a string literal that is the first token after print( is the format
\* string: followed by ) or by arguments after commas the statement is
\* parsed to a print with that format string; followed by anything else (an
\* operator that would continue an expression, another expression) the
\* source is a parse error naming the token found in place of ), and a comma
\* without an argument after it is a parse error too.  A String reaches a
\* print without format string only through an expression that does not
\* start with a literal, and is then emitted as it is, {} included.
LiteralIsFormat ==
    /\ \A t \in AcceptedAfterLiteral :
           (input = LiteralFirst(t) /\ phase # "start") =>
               /\ phase # "parse_error"
               /\ statements[1].s = "Print"
               /\ statements[1].fmt = Some("a")
               /\ statements[1].args = parse_print_args(t \o ")", Parser_new(t \o ")"), <<>>).v
    /\ \A t \in RefusedAfterLiteral :
           (input = LiteralFirst(t) /\ phase # "start") =>
               /\ phase = "parse_error"
               /\ statements = <<>> /\ out = <<>>
               /\ Parser_new(t).cur # Tok("Op", ",") => err = no_close(Parser_new(t).cur)
               /\ t = ", 1 2" => err = no_close(Tok("Number", "2"))
    /\ \A s \in VerbatimTexts :
           (input = PrintVariable(s) /\ phase # "start") =>
               /\ phase # "parse_error"
               /\ statements[2] = StPrint(NoneOpt, <<Var("x")>>)
               /\ idx = 2 => out = <<s>> /\ err = ""
    /\ (input = "print((\"a\") + \"b\")" /\ phase = "done") =>
           statements[1].fmt = NoneOpt /\ out = <<"ab">>
    /\ (input = "x = \"a\"\nprint(x + \"b\")" /\ phase = "done") => out = <<"ab">>

\* the parser has refused  print("a" + "b")  at the +
LiteralIsFormatWitness ==
    /\ phase = "parse_error"
    /\ input = "print(\"a\" + \"b\")"
    /\ err = no_close(Tok("Op", "+"))
====
